---- MODULE Spec2Model ----
(***************************************************************************)
(* Resilience and admission-control layer of the mlops-platform API:       *)
(*   - CircuitBreaker          (src/api/utils/circuit_breaker.py)          *)
(*   - EnhancedRedisCache      (src/api/cache/enhanced_redis_cache.py)     *)
(*   - RateLimiter             (src/api/middleware/rate_limiter.py)        *)
(* Each component has its own specification over the shared variables.     *)
(* Time is the integer clock `now` (seconds).                              *)
(***************************************************************************)
EXTENDS Integers, Sequences, FiniteSets, TLC

VARIABLES
    now,        \* the wall clock, time.time(), in whole seconds
    steps,      \* number of operations performed so far (bounds the run)
    cb,         \* the CircuitBreaker instance (its fields)
    call_count, \* how many times the wrapped operation was invoked (Mock.call_count)
    streak,     \* consecutive failing calls since CLOSED with failure_count 0; -1: none
                \* (cache: consecutive failed backend operations)
    ev,         \* what the last operation was given and what it returned or raised
    cache,      \* the EnhancedRedisCache instance (its fields)
    kv,         \* what the Redis backend holds for the cache keys
    limiter,    \* the RateLimiter instance (its limits, windows, last_redis_check)
    store,      \* what the Redis backend holds for the rate-limit bucket keys
    scn,        \* the run of checks on one bucket that started with no stored bucket
                \* (concurrent breaker: invocations admitted while HALF_OPEN)
    pc,         \* concurrent checks: where each request is in check_rate_limit
    req         \* concurrent checks: each request's local variables and result

cbVars == <<cb, call_count, streak>>
cacheVars == <<cache, kv>>
rlVars == <<limiter, store, scn>>
concVars == <<pc, req>>
vars == <<now, steps, ev, cbVars, cacheVars, rlVars, concVars>>

\* ---------------------------------------------------------------- bounds
MaxTime == 5
MaxSteps == 5
MaxThreshold == 3
MaxTimeout == 2
MaxDur == 1

Min(a, b) == IF a <= b THEN a ELSE b

\* ================================================================
\* CircuitBreaker
\* ================================================================
CLOSED == "closed"
OPEN == "open"
HALF_OPEN == "half_open"

CircuitBreakerOpenException == "CircuitBreakerOpenException"

\* What the wrapped operation does when it is invoked: it returns, or raises
\* one of its own exception kinds.
Outcomes == {"ok", "ValueError", "TypeError"}

\* CircuitBreaker.__init__
NewBreaker(threshold, timeout, whitelist, t) ==
    [ failure_threshold |-> threshold,
      recovery_timeout |-> timeout,
      exception_whitelist |-> whitelist,
      state |-> CLOSED,
      failure_count |-> 0,
      last_failure_time |-> 0,
      metrics |-> [ success_count |-> 0,
                    failure_count |-> 0,
                    rejected_count |-> 0,
                    last_failure_time |-> 0,
                    last_state_change_time |-> t,
                    current_state |-> CLOSED ] ]

_should_attempt_recovery_strict(b, t) ==
    t - b.last_failure_time > b.recovery_timeout

_should_attempt_recovery(b, t) ==
    t - b.last_failure_time >= b.recovery_timeout

RecordTransition_time_only(b, prev_state, t) ==
    IF prev_state # b.state
    THEN [b EXCEPT !.metrics.last_state_change_time = t]
    ELSE b

\* The shared tail of the three _transition_to_* methods and of reset().
RecordTransition(b, prev_state, t) ==
    IF prev_state # b.state
    THEN [b EXCEPT !.metrics.last_state_change_time = t,
                   !.metrics.current_state = b.state]
    ELSE b

_transition_to_half_open(b, t) ==
    RecordTransition([b EXCEPT !.state = HALF_OPEN], b.state, t)

_transition_to_open(b, t) ==
    RecordTransition([b EXCEPT !.state = OPEN], b.state, t)

_transition_to_closed(b, t) ==
    RecordTransition([b EXCEPT !.state = CLOSED, !.failure_count = 0], b.state, t)

_on_success_keep_half_open(b, t) ==
    [b EXCEPT !.metrics.success_count = @ + 1]

_on_success(b, t) ==
    LET b1 == [b EXCEPT !.metrics.success_count = @ + 1]
    IN  IF b1.state = HALF_OPEN THEN _transition_to_closed(b1, t) ELSE b1

_on_failure_above_threshold(b, t) ==
    LET b1 == [b EXCEPT !.last_failure_time = t,
                        !.failure_count = @ + 1,
                        !.metrics.failure_count = @ + 1,
                        !.metrics.last_failure_time = t]
    IN  IF b1.state = HALF_OPEN \/ b1.failure_count > b1.failure_threshold
        THEN _transition_to_open(b1, t)
        ELSE b1

_on_failure(b, t) ==
    LET b1 == [b EXCEPT !.last_failure_time = t,
                        !.failure_count = @ + 1,
                        !.metrics.failure_count = @ + 1,
                        !.metrics.last_failure_time = t]
    IN  IF b1.state = HALF_OPEN \/ b1.failure_count >= b1.failure_threshold
        THEN _transition_to_open(b1, t)
        ELSE b1

_increment_rejected(b) ==
    [b EXCEPT !.metrics.rejected_count = @ + 1]

reset_keep_count(b, t) ==
    RecordTransition([b EXCEPT !.state = CLOSED], b.state, t)

reset(b, t) ==
    RecordTransition([b EXCEPT !.state = CLOSED, !.failure_count = 0], b.state, t)

\* The first half of call(): the OPEN check.  admitted is FALSE when the call
\* is rejected; b is the breaker as the wrapped operation finds it.
Admit(b, t) ==
    IF b.state = OPEN
    THEN IF _should_attempt_recovery(b, t)
         THEN [admitted |-> TRUE, b |-> _transition_to_half_open(b, t)]
         ELSE [admitted |-> FALSE, b |-> _increment_rejected(b)]
    ELSE [admitted |-> TRUE, b |-> b]

\* The second half of call(): the operation was invoked at time t, took dur
\* seconds and ended with outcome.
Complete_swallow(b, outcome, t) ==
    IF outcome = "ok"
    THEN [b |-> _on_success(b, t), raised |-> "none", returned |-> TRUE]
    ELSE IF outcome \in b.exception_whitelist
    THEN [b |-> b, raised |-> "none", returned |-> TRUE]
    ELSE [b |-> _on_failure(b, t), raised |-> outcome, returned |-> FALSE]

Complete_count_whitelisted(b, outcome, t) ==
    IF outcome = "ok"
    THEN [b |-> _on_success(b, t), raised |-> "none", returned |-> TRUE]
    ELSE [b |-> _on_failure(b, t), raised |-> outcome, returned |-> FALSE]

Complete(b, outcome, t) ==
    IF outcome = "ok"
    THEN [b |-> _on_success(b, t), raised |-> "none", returned |-> TRUE]
    ELSE IF outcome \in b.exception_whitelist
    THEN [b |-> b, raised |-> outcome, returned |-> FALSE]
    ELSE [b |-> _on_failure(b, t), raised |-> outcome, returned |-> FALSE]

\* CircuitBreaker.call
call(b, t, outcome, dur) ==
    LET a == Admit(b, t)
    IN  IF ~a.admitted
        THEN [b |-> a.b, invoked |-> FALSE, raised |-> CircuitBreakerOpenException,
              returned |-> FALSE, at |-> a.b]
        ELSE LET c == Complete(a.b, outcome, t + dur)
             IN  [b |-> c.b, invoked |-> TRUE, raised |-> c.raised,
                  returned |-> c.returned, at |-> a.b]

\* ---------------------------------------------------------------- events
NoEvent ==
    [ op |-> "none", t |-> 0, outcome |-> "none", invoked |-> FALSE,
      raised |-> "none", returned |-> FALSE, at |-> <<>> ]

IsFailure(b, outcome) == outcome # "ok" /\ outcome \notin b.exception_whitelist

\* The run of consecutive non-whitelisted failing calls that started from
\* CLOSED with failure_count 0 (a rejected call invokes nothing and leaves the
\* run as it is).
NextStreak(s, r, b0, outcome) ==
    IF ~r.invoked THEN s
    ELSE IF IsFailure(b0, outcome) /\ s >= 0 THEN s + 1
    ELSE IF r.b.state = CLOSED /\ r.b.failure_count = 0 THEN 0
    ELSE -1

\* ---------------------------------------------------------------- actions
InitCB ==
    /\ now = 1
    /\ steps = 0
    /\ \E th \in 1..MaxThreshold, to \in 1..MaxTimeout,
          wl \in {{}, {"ValueError"}} :
          cb = NewBreaker(th, to, wl, 1)
    /\ call_count = 0
    /\ streak = 0
    /\ ev = NoEvent
    /\ cache = <<>> /\ kv = <<>>
    /\ limiter = <<>> /\ store = <<>> /\ scn = <<>>
    /\ pc = <<>> /\ req = <<>>

Tick ==
    /\ now < MaxTime
    /\ now' = now + 1
    /\ ev' = [NoEvent EXCEPT !.op = "tick", !.t = now]
    /\ UNCHANGED <<steps, cbVars, cacheVars, rlVars, concVars>>

CBCall ==
    /\ steps < MaxSteps
    /\ \E outcome \in Outcomes, dur \in 0..MaxDur :
          \E r \in {call(cb, now, outcome, dur)} :
              /\ now + dur <= MaxTime
              /\ cb' = r.b
              /\ now' = IF r.invoked THEN now + dur ELSE now
              /\ call_count' = IF r.invoked THEN call_count + 1 ELSE call_count
              /\ streak' = NextStreak(streak, r, cb, outcome)
              /\ ev' = [ op |-> "call", t |-> now, outcome |-> outcome,
                         invoked |-> r.invoked, raised |-> r.raised,
                         returned |-> r.returned, at |-> r.at ]
    /\ steps' = steps + 1
    /\ UNCHANGED <<cacheVars, rlVars, concVars>>

CBReset ==
    /\ steps < MaxSteps
    /\ cb' = reset(cb, now)
    /\ streak' = IF cb'.state = CLOSED /\ cb'.failure_count = 0 THEN 0 ELSE -1
    /\ ev' = [NoEvent EXCEPT !.op = "reset", !.t = now, !.at = cb]
    /\ steps' = steps + 1
    /\ UNCHANGED <<now, call_count, cacheVars, rlVars, concVars>>

NextCB == Tick \/ CBCall \/ CBReset

SpecCB == InitCB /\ [][NextCB]_vars

\* ================================================================
\* Properties of the CircuitBreaker (checked under SpecCB)
\* ================================================================
\* The step just taken is a call() / a reset().
CallStep == ev'.op = "call" /\ steps' = steps + 1
ResetStep == ev'.op = "reset" /\ steps' = steps + 1

SameBookkeeping(b1, b2) ==
    /\ b1.failure_count = b2.failure_count
    /\ b1.last_failure_time = b2.last_failure_time
    /\ b1.metrics.success_count = b2.metrics.success_count
    /\ b1.metrics.failure_count = b2.metrics.failure_count
    /\ b1.metrics.rejected_count = b2.metrics.rejected_count

\* C2: after exactly T = failure_threshold consecutive non-whitelisted failing
\* calls from CLOSED with failure_count 0 the breaker is OPEN with
\* failure_count T, after fewer it is still CLOSED; a call made then, before
\* recovery_timeout has elapsed, raises CircuitBreakerOpenException and does
\* not invoke the operation.
C2_OpensAtThreshold ==
    /\ [](streak >= 0 /\ streak <= cb.failure_threshold =>
            /\ cb.failure_count = streak
            /\ cb.state = IF streak < cb.failure_threshold THEN CLOSED ELSE OPEN)
    /\ [][(/\ CallStep
           /\ streak = cb.failure_threshold
           /\ ev'.t - cb.last_failure_time < cb.recovery_timeout)
          => (/\ ev'.raised = CircuitBreakerOpenException
              /\ ~ev'.invoked
              /\ call_count' = call_count)]_vars

C2_Witness ==
    /\ cb.failure_threshold >= 2
    /\ streak = cb.failure_threshold
    /\ call_count = cb.failure_threshold
    /\ ev.op = "call"
    /\ ev.raised = CircuitBreakerOpenException
    /\ cb.state = OPEN

\* C3: a call made while OPEN once recovery_timeout has elapsed since
\* last_failure_time goes through HALF_OPEN and invokes the operation exactly
\* once; success ends in CLOSED with failure_count 0, a non-whitelisted
\* failure ends in OPEN with last_failure_time the time of that failure.
C3_TrialAfterTimeout ==
    [][(/\ CallStep
        /\ cb.state = OPEN
        /\ ev'.t - cb.last_failure_time >= cb.recovery_timeout)
       => (/\ ev'.at.state = HALF_OPEN
           /\ ev'.invoked
           /\ call_count' = call_count + 1
           /\ (ev'.outcome = "ok" =>
                 cb'.state = CLOSED /\ cb'.failure_count = 0 /\ ev'.returned)
           /\ (IsFailure(cb, ev'.outcome) =>
                 cb'.state = OPEN /\ cb'.last_failure_time = now'))]_vars

C3_Witness ==
    /\ ev.op = "call"
    /\ ev.at.state = HALF_OPEN
    /\ ev.at.failure_count >= 2
    /\ ev.returned
    /\ cb.state = CLOSED
    /\ cb.failure_count = 0

\* C4: a call whose operation raises a whitelisted failure re-raises it and
\* changes none of failure_count, last_failure_time and the metrics counters,
\* nor the state the call was admitted in (CLOSED, or HALF_OPEN for a trial).
C4_WhitelistedInvisible ==
    [][(CallStep /\ ev'.invoked /\ ev'.outcome \in cb.exception_whitelist)
       => (/\ ev'.raised = ev'.outcome
           /\ ~ev'.returned
           /\ cb' = ev'.at
           /\ SameBookkeeping(cb', cb)
           /\ cb'.state = IF cb.state = OPEN THEN HALF_OPEN ELSE cb.state)]_vars

C4_Witness ==
    /\ ev.op = "call"
    /\ ev.invoked
    /\ ev.outcome \in cb.exception_whitelist
    /\ ev.at.state = HALF_OPEN
    /\ cb.state = HALF_OPEN
    /\ cb.failure_count >= 1

\* C5: reset() ends in CLOSED with failure_count 0 from every state, and a
\* call right after reset() invokes the operation whatever time has elapsed.
C5_ResetCloses ==
    /\ [][ResetStep => cb'.state = CLOSED /\ cb'.failure_count = 0]_vars
    /\ [][(ev.op = "reset" /\ CallStep) => ev'.invoked]_vars

C5_Witness ==
    /\ ev.op = "reset"
    /\ ev.at.state = OPEN
    /\ ev.at.failure_count >= 2
    /\ ev.t - ev.at.last_failure_time < ev.at.recovery_timeout
    /\ cb.state = CLOSED
    /\ cb.failure_count = 0

\* C6: a call is rejected with CircuitBreakerOpenException iff the state is
\* OPEN and now - last_failure_time < recovery_timeout; a rejected call does
\* not invoke the operation, adds one to rejected_count and leaves state,
\* failure_count and last_failure_time unchanged.
C6_RejectedIff ==
    [][CallStep =>
         /\ (ev'.raised = CircuitBreakerOpenException) <=>
              (cb.state = OPEN /\ ev'.t - cb.last_failure_time < cb.recovery_timeout)
         /\ (ev'.raised = CircuitBreakerOpenException =>
               /\ ~ev'.invoked
               /\ call_count' = call_count
               /\ cb'.metrics.rejected_count = cb.metrics.rejected_count + 1
               /\ cb'.state = cb.state
               /\ cb'.failure_count = cb.failure_count
               /\ cb'.last_failure_time = cb.last_failure_time)]_vars

C6_Witness ==
    /\ ev.op = "call"
    /\ ev.invoked
    /\ ev.at.state = HALF_OPEN
    /\ ev.t - ev.at.last_failure_time = ev.at.recovery_timeout
    /\ cb.metrics.rejected_count >= 1

\* C7: a call ends in exactly one of: it returns the operation's result; it
\* re-raises the failure the operation raised; it raises
\* CircuitBreakerOpenException, and then the operation was not invoked.
C7_Returned == ev.returned /\ ev.raised = "none" /\ ev.invoked /\ ev.outcome = "ok"
C7_Reraised == ~ev.returned /\ ev.raised = ev.outcome /\ ev.invoked /\ ev.outcome # "ok"
C7_Rejected == ~ev.returned /\ ev.raised = CircuitBreakerOpenException /\ ~ev.invoked

C7_ThreeOutcomes ==
    ev.op = "call" =>
        /\ C7_Returned \/ C7_Reraised \/ C7_Rejected
        /\ ~(C7_Returned /\ C7_Reraised)
        /\ ~(C7_Returned /\ C7_Rejected)
        /\ ~(C7_Reraised /\ C7_Rejected)
        /\ (ev.raised = CircuitBreakerOpenException => ~ev.invoked)

C7_Witness ==
    /\ ev.op = "call"
    /\ C7_Reraised
    /\ ev.outcome \in cb.exception_whitelist
    /\ cb.metrics.rejected_count >= 1
    /\ cb.metrics.success_count >= 1

\* ================================================================
\* EnhancedRedisCache
\* ================================================================
MaxCacheThreshold == 2
MaxResetTime == 2
MaxCacheTime == 4
MaxCounter == 1

None == "None"

Keys == {"k1", "k2"}

\* What Redis holds under a key is a string (decode_responses=True).  The
\* strings of the model: a decimal integer n, the JSON string "\"a\"", a string
\* that is not JSON, and nil for a key that is not there.
Nil == [kind |-> "nil", n |-> 0]
SInt(n) == [kind |-> "int", n |-> n]
SJsonStr == [kind |-> "jstr", n |-> 0]
SGarbage == [kind |-> "garbage", n |-> 0]

\* Python values a deserialized entry can be.
PyNone == [py |-> "None", n |-> 0]
PyInt(n) == [py |-> "int", n |-> n]
PyStr == [py |-> "str", n |-> 0]

\* A backend entry: the stored string and the time it expires at (-1: never).
Entry(v, e) == [val |-> v, exp |-> e]
Live(entry, t) == entry.val.kind # "nil" /\ (entry.exp = -1 \/ t < entry.exp)
\* GET / MGET of one key.
Lookup(entries, k, t) == IF Live(entries[k], t) THEN entries[k].val ELSE Nil

\* EnhancedRedisCache._deserialize: json.loads, or pickle.loads (which takes
\* bytes and raises on the str the client returns).
_deserialize(format, value) ==
    IF value.kind = "nil" THEN [raised |-> FALSE, v |-> PyNone]
    ELSE IF format = "pickle" THEN [raised |-> TRUE, v |-> PyNone]
    ELSE IF value.kind = "int" THEN [raised |-> FALSE, v |-> PyInt(value.n)]
    ELSE IF value.kind = "jstr" THEN [raised |-> FALSE, v |-> PyStr]
    ELSE [raised |-> TRUE, v |-> PyNone]

_handle_failure_above_threshold(c, t) ==
    LET c1 == [c EXCEPT !.failure_count = @ + 1]
    IN  IF c1.failure_count > c1.failure_threshold /\ ~c1.circuit_open
        THEN [c1 EXCEPT !.circuit_open = TRUE, !.last_circuit_open_time = t]
        ELSE c1

\* EnhancedRedisCache._handle_failure
_handle_failure(c, t) ==
    LET c1 == [c EXCEPT !.failure_count = @ + 1]
    IN  IF c1.failure_count >= c1.failure_threshold /\ ~c1.circuit_open
        THEN [c1 EXCEPT !.circuit_open = TRUE, !.last_circuit_open_time = t]
        ELSE c1

\* EnhancedRedisCache._init_client: from_url and a ping; ping_ok says whether
\* the backend answers.
_init_client(c, t, ping_ok) ==
    IF ping_ok
    THEN [c EXCEPT !.client = "client"]
    ELSE _handle_failure([c EXCEPT !.client = None], t)

\* EnhancedRedisCache.__init__
NewCache(enabled, format, threshold, reset_time, t, ping_ok) ==
    LET c == [ enabled |-> enabled,
               serialization_format |-> format,
               failure_threshold |-> threshold,
               circuit_reset_time |-> reset_time,
               client |-> None,
               circuit_open |-> FALSE,
               last_circuit_open_time |-> 0,
               failure_count |-> 0 ]
    IN  IF enabled THEN _init_client(c, t, ping_ok) ELSE c

is_available_keep_count(c, t, init_ok, ping_ok) ==
    IF c.circuit_open /\ ~(t - c.last_circuit_open_time > c.circuit_reset_time)
    THEN [c |-> c, ret |-> FALSE, cmds |-> 0]
    ELSE LET c1 == IF c.circuit_open
                   THEN [c EXCEPT !.circuit_open = FALSE]
                   ELSE c
             c2 == IF c1.client = None THEN _init_client(c1, t, init_ok) ELSE c1
             n1 == IF c1.client = None THEN 1 ELSE 0
         IN  IF c2.client # None
             THEN IF ping_ok
                  THEN [c |-> c2, ret |-> TRUE, cmds |-> n1 + 1]
                  ELSE [c |-> _handle_failure(c2, t), ret |-> FALSE, cmds |-> n1 + 1]
             ELSE [c |-> c2, ret |-> TRUE, cmds |-> n1]

\* EnhancedRedisCache.is_available.  init_ok, ping_ok: whether the backend
\* answers the connection attempt and the ping.  cmds: commands sent.
is_available(c, t, init_ok, ping_ok) ==
    IF c.circuit_open /\ ~(t - c.last_circuit_open_time > c.circuit_reset_time)
    THEN [c |-> c, ret |-> FALSE, cmds |-> 0]
    ELSE LET c1 == IF c.circuit_open
                   THEN [c EXCEPT !.circuit_open = FALSE, !.failure_count = 0]
                   ELSE c
             c2 == IF c1.client = None THEN _init_client(c1, t, init_ok) ELSE c1
             n1 == IF c1.client = None THEN 1 ELSE 0
         IN  IF c2.client # None
             THEN IF ping_ok
                  THEN [c |-> c2, ret |-> TRUE, cmds |-> n1 + 1]
                  ELSE [c |-> _handle_failure(c2, t), ret |-> FALSE, cmds |-> n1 + 1]
             ELSE [c |-> c2, ret |-> TRUE, cmds |-> n1]

Degraded_ignores_circuit(c) == ~c.enabled \/ c.client = None

\* The guard every data operation starts with.
Degraded(c) == ~c.enabled \/ c.circuit_open \/ c.client = None

AllNone(keys) == [i \in 1..Len(keys) |-> PyNone]

mget_empty_on_error(c, keys, entries, t, cmd_ok) ==
    IF Degraded(c) THEN [c |-> c, ret |-> AllNone(keys), cmds |-> 0]
    ELSE LET results == [i \in 1..Len(keys) |-> Lookup(entries, keys[i], t)]
             values == [i \in 1..Len(keys) |->
                          _deserialize(c.serialization_format, results[i])]
             raised == \/ ~cmd_ok
                       \/ Len(keys) = 0
                       \/ \E i \in 1..Len(keys) : values[i].raised
         IN  IF raised
             THEN [c |-> _handle_failure(c, t), ret |-> <<>>, cmds |-> 1]
             ELSE [c |-> c, ret |-> [i \in 1..Len(keys) |-> values[i].v], cmds |-> 1]

\* EnhancedRedisCache.mget.  cmd_ok: whether the backend answers MGET (MGET
\* with no key at all is an error reply).
mget(c, keys, entries, t, cmd_ok) ==
    IF Degraded(c) THEN [c |-> c, ret |-> AllNone(keys), cmds |-> 0]
    ELSE LET results == [i \in 1..Len(keys) |-> Lookup(entries, keys[i], t)]
             values == [i \in 1..Len(keys) |->
                          _deserialize(c.serialization_format, results[i])]
             raised == \/ ~cmd_ok
                       \/ Len(keys) = 0
                       \/ \E i \in 1..Len(keys) : values[i].raised
         IN  IF raised
             THEN [c |-> _handle_failure(c, t), ret |-> AllNone(keys), cmds |-> 1]
             ELSE [c |-> c, ret |-> [i \in 1..Len(keys) |-> values[i].v], cmds |-> 1]

\* EnhancedRedisCache.exists
exists(c, key, entries, t, cmd_ok) ==
    IF Degraded(c) THEN [c |-> c, ret |-> FALSE, cmds |-> 0]
    ELSE IF ~cmd_ok THEN [c |-> _handle_failure(c, t), ret |-> FALSE, cmds |-> 1]
    ELSE [c |-> c, ret |-> Live(entries[key], t), cmds |-> 1]

\* EnhancedRedisCache.expire: EXPIRE answers 1 iff the key is there; a ttl
\* that is not positive deletes the key.
expire(c, key, ttl, entries, t, cmd_ok) ==
    IF Degraded(c) THEN [c |-> c, ret |-> FALSE, cmds |-> 0, entries |-> entries]
    ELSE IF ~cmd_ok
    THEN [c |-> _handle_failure(c, t), ret |-> FALSE, cmds |-> 1, entries |-> entries]
    ELSE IF ~Live(entries[key], t)
    THEN [c |-> c, ret |-> FALSE, cmds |-> 1, entries |-> entries]
    ELSE [c |-> c, ret |-> TRUE, cmds |-> 1,
          entries |-> [entries EXCEPT ![key] =
                          Entry(IF ttl > 0 THEN @.val ELSE Nil, t + ttl)]]

\* EnhancedRedisCache.increment: INCRBY starts a missing key at 0 and is an
\* error reply on a string that is no integer; it keeps the key's expiry.
increment(c, key, amount, entries, t, cmd_ok) ==
    LET cur == Lookup(entries, key, t)
    IN  IF Degraded(c) THEN [c |-> c, ret |-> PyNone, cmds |-> 0, entries |-> entries]
        ELSE IF ~cmd_ok \/ cur.kind \notin {"nil", "int"}
        THEN [c |-> _handle_failure(c, t), ret |-> PyNone, cmds |-> 1,
              entries |-> entries]
        ELSE LET n == (IF cur.kind = "int" THEN cur.n ELSE 0) + amount
             IN  [c |-> c, ret |-> PyInt(n), cmds |-> 1,
                  entries |-> [entries EXCEPT ![key] =
                                  Entry(SInt(n), IF cur.kind = "int" THEN @.exp ELSE -1)]]

LatencyThresholdMs == 100

health_check_degraded_at_threshold(c, ping_ok, latency_ms) ==
    IF ~c.enabled THEN [status |-> "disabled", latency_ms |-> 0, cmds |-> 0]
    ELSE IF c.circuit_open THEN [status |-> "unhealthy", latency_ms |-> 0, cmds |-> 0]
    ELSE IF c.client = None THEN [status |-> "unhealthy", latency_ms |-> 0, cmds |-> 0]
    ELSE IF ~ping_ok THEN [status |-> "unhealthy", latency_ms |-> 0, cmds |-> 1]
    ELSE [status |-> IF latency_ms >= LatencyThresholdMs THEN "degraded" ELSE "healthy",
          latency_ms |-> latency_ms, cmds |-> 1]

\* EnhancedRedisCache.health_check.  latency_ms: the measured round trip.
health_check(c, ping_ok, latency_ms) ==
    IF ~c.enabled THEN [status |-> "disabled", latency_ms |-> 0, cmds |-> 0]
    ELSE IF c.circuit_open THEN [status |-> "unhealthy", latency_ms |-> 0, cmds |-> 0]
    ELSE IF c.client = None THEN [status |-> "unhealthy", latency_ms |-> 0, cmds |-> 0]
    ELSE IF ~ping_ok THEN [status |-> "unhealthy", latency_ms |-> 0, cmds |-> 1]
    ELSE [status |-> IF latency_ms > LatencyThresholdMs THEN "degraded" ELSE "healthy",
          latency_ms |-> latency_ms, cmds |-> 1]

\* The run of consecutive failed backend operations (kept up to the
\* threshold), after a data operation that went from client c to result r:
\* an operation that sent nothing leaves it, one that ended in
\* _handle_failure extends it, any other ends it.
StreakAfter(s, c, r) ==
    IF r.cmds = 0 THEN s
    ELSE IF r.c.failure_count > c.failure_count THEN Min(s + 1, c.failure_threshold)
    ELSE 0

\* The same after is_available: the connection attempt (made when the client
\* is None) and the ping are one backend operation each.
StreakAfterProbe(s, c, t, init_ok, ping_ok) ==
    IF c.circuit_open /\ ~(t - c.last_circuit_open_time > c.circuit_reset_time) THEN s
    ELSE IF c.client = None
         THEN IF ~init_ok THEN Min(s + 1, c.failure_threshold)
              ELSE IF ping_ok THEN 0 ELSE 1
         ELSE IF ping_ok THEN 0 ELSE Min(s + 1, c.failure_threshold)

\* ---------------------------------------------------------------- actions
\* The key lists mget is called with: none, one, several, one key twice.
KeySeqs ==
    { <<>>, <<"k1">>, <<"k2">>, <<"k1", "k2">>, <<"k2", "k1", "k2">> }

InitialEntries ==
    { [k \in Keys |-> IF k = "k1" THEN Entry(SInt(1), -1) ELSE Entry(SJsonStr, -1)],
      [k \in Keys |-> IF k = "k1" THEN Entry(Nil, -1) ELSE Entry(SGarbage, -1)] }

InitCache ==
    /\ now = 1
    /\ steps = 0
    /\ ev = NoEvent
    /\ \E enabled \in BOOLEAN, format \in {"json", "pickle"},
          th \in 1..MaxCacheThreshold, rt \in 1..MaxResetTime, ping_ok \in BOOLEAN :
          cache = NewCache(enabled, format, th, rt, 1, ping_ok)
    /\ kv \in InitialEntries
    /\ streak = cache.failure_count
    /\ cb = <<>> /\ call_count = 0
    /\ limiter = <<>> /\ store = <<>> /\ scn = <<>>
    /\ pc = <<>> /\ req = <<>>

CacheFrame == UNCHANGED <<now, steps, cb, call_count, rlVars, concVars>>

\* The clock advances; Redis drops the keys whose expiry has come.
TickCache ==
    /\ now < MaxCacheTime
    /\ now' = now + 1
    /\ kv' = [k \in Keys |-> IF Live(kv[k], now + 1) THEN kv[k] ELSE Entry(Nil, -1)]
    /\ ev' = [op |-> "tick"]
    /\ UNCHANGED <<steps, cache, cbVars, rlVars, concVars>>

Mget ==
    /\ \E keys \in KeySeqs, cmd_ok \in BOOLEAN :
          \E r \in {mget(cache, keys, kv, now, cmd_ok)} :
              /\ cache' = r.c
              /\ streak' = StreakAfter(streak, cache, r)
              /\ ev' = [op |-> "mget", keys |-> keys, ret |-> r.ret, cmds |-> r.cmds]
    /\ UNCHANGED kv
    /\ CacheFrame

Exists ==
    /\ \E key \in Keys, cmd_ok \in BOOLEAN :
          \E r \in {exists(cache, key, kv, now, cmd_ok)} :
              /\ cache' = r.c
              /\ streak' = StreakAfter(streak, cache, r)
              /\ ev' = [op |-> "exists", ret |-> r.ret, cmds |-> r.cmds]
    /\ UNCHANGED kv
    /\ CacheFrame

Expire ==
    /\ \E key \in Keys, ttl \in {1}, cmd_ok \in BOOLEAN :
          \E r \in {expire(cache, key, ttl, kv, now, cmd_ok)} :
              /\ cache' = r.c
              /\ streak' = StreakAfter(streak, cache, r)
              /\ kv' = r.entries
              /\ ev' = [op |-> "expire", ret |-> r.ret, cmds |-> r.cmds]
    /\ CacheFrame

Increment ==
    /\ \E key \in Keys, amount \in {1}, cmd_ok \in BOOLEAN :
          \E r \in {increment(cache, key, amount, kv, now, cmd_ok)} :
              /\ r.ret.n <= MaxCounter
              /\ cache' = r.c
              /\ streak' = StreakAfter(streak, cache, r)
              /\ kv' = r.entries
              /\ ev' = [op |-> "increment", ret |-> r.ret, cmds |-> r.cmds]
    /\ CacheFrame

IsAvailable ==
    /\ \E init_ok \in (IF cache.client = None THEN BOOLEAN ELSE {TRUE}),
          ping_ok \in BOOLEAN :
          \E r \in {is_available(cache, now, init_ok, ping_ok)} :
              /\ cache' = r.c
              /\ streak' = StreakAfterProbe(streak, cache, now, init_ok, ping_ok)
              /\ ev' = [op |-> "is_available", up |-> init_ok /\ ping_ok,
                        ret |-> r.ret, cmds |-> r.cmds]
    /\ UNCHANGED kv
    /\ CacheFrame

HealthCheck ==
    /\ \E ping_ok \in BOOLEAN, latency_ms \in {LatencyThresholdMs, LatencyThresholdMs + 1} :
          \E r \in {health_check(cache, ping_ok, latency_ms)} :
              /\ ev' = [op |-> "health_check", ping_ok |-> ping_ok,
                        measured_ms |-> latency_ms, ret |-> r, cmds |-> r.cmds]
    /\ UNCHANGED <<cache, kv, streak>>
    /\ CacheFrame

NextCache ==
    TickCache \/ Mget \/ Exists \/ Expire \/ Increment \/ IsAvailable \/ HealthCheck

SpecCache == InitCache /\ [][NextCache]_vars

\* ================================================================
\* Properties of the EnhancedRedisCache (checked under SpecCache)
\* ================================================================
MgetStep == ev'.op = "mget"

\* C10: mget(keys) returns exactly len(keys) elements in every state of the
\* client, and when circuit_open is true every element is None whatever the
\* backend holds.
C10_MgetLength ==
    [][MgetStep =>
         /\ Len(ev'.ret) = Len(ev'.keys)
         /\ DOMAIN ev'.ret = 1..Len(ev'.keys)
         /\ (cache.circuit_open => \A i \in 1..Len(ev'.keys) : ev'.ret[i] = PyNone)]_vars

\* circuit open, client connected, backend answering and holding a value
\* under each key asked for
C10_Witness ==
    /\ ev.op = "mget"
    /\ Len(ev.keys) >= 2
    /\ cache.enabled /\ cache.circuit_open /\ cache.client # None
    /\ cache.serialization_format = "json"
    /\ \A i \in 1..Len(ev.keys) :
          Live(kv[ev.keys[i]], now) /\ ~_deserialize("json", kv[ev.keys[i]].val).raised
    /\ \A i \in 1..Len(ev.keys) : ev.ret[i] = PyNone

ResetTimeElapsed(c, t) == t - c.last_circuit_open_time > c.circuit_reset_time

\* C11: the circuit is open from the failure_threshold-th consecutive failed
\* backend operation on; while it is open it stays open, whatever is called,
\* until more than circuit_reset_time has passed since last_circuit_open_time;
\* once that time has passed, an is_available() call that finds the backend
\* answering closes the circuit and returns true.
C11_OpenAfterThreshold ==
    (streak >= cache.failure_threshold) =>
        (cache.circuit_open \/ ResetTimeElapsed(cache, now))

C11_StaysOpen ==
    (cache.circuit_open /\ ~ResetTimeElapsed(cache, now')) =>
        /\ cache'.circuit_open
        /\ cache'.last_circuit_open_time = cache.last_circuit_open_time

C11_ProbeCloses ==
    (ev'.op = "is_available" /\ ev'.up /\ cache.circuit_open
       /\ ResetTimeElapsed(cache, now)) =>
        (~cache'.circuit_open /\ ev'.ret = TRUE /\ cache'.failure_count = 0)

BackendTrouble ==
    \/ cache.client = None
    \/ cache'.failure_count > cache.failure_count
    \/ (ev'.op = "is_available" /\ ~ev'.up)

\* C12: no cache operation raises on backend trouble; on a failing,
\* unreachable or not-connected backend mget returns all None, exists and
\* expire return False, increment returns None and is_available returns False.
C12_DegradedResults ==
    [][BackendTrouble =>
         /\ (ev'.op = "mget" => ev'.ret = AllNone(ev'.keys))
         /\ (ev'.op \in {"exists", "expire"} => ev'.ret = FALSE)
         /\ (ev'.op = "increment" => ev'.ret = PyNone)
         /\ (ev'.op = "is_available" => ev'.ret = FALSE)]_vars

DataOps == {"mget", "exists", "expire", "increment"}

\* C13: while circuit_open is true, mget, exists, expire, increment and
\* health_check, and is_available before the reset time has passed, return
\* their degraded result and send no command to the backend.
C13_OpenCircuitSendsNothing ==
    [][(cache.circuit_open
          /\ (ev'.op \in DataOps \cup {"health_check"}
                \/ (ev'.op = "is_available" /\ ~ResetTimeElapsed(cache, now)))) =>
         /\ ev'.cmds = 0
         /\ cache' = cache /\ kv' = kv
         /\ (ev'.op = "mget" => ev'.ret = AllNone(ev'.keys))
         /\ (ev'.op \in {"exists", "expire", "is_available"} => ev'.ret = FALSE)
         /\ (ev'.op = "increment" => ev'.ret = PyNone)
         /\ (ev'.op = "health_check" =>
               /\ ev'.ret.status = (IF cache.enabled THEN "unhealthy" ELSE "disabled")
               /\ ev'.ret.latency_ms = 0)]_vars

\* increment on an enabled, connected client whose circuit is open
C13_Witness ==
    /\ ev.op = "increment" /\ ev.cmds = 0 /\ ev.ret = PyNone
    /\ cache.enabled /\ cache.client # None /\ cache.circuit_open
    /\ \E k \in Keys : Lookup(kv, k, now).kind = "int"

\* C14: an is_available() call on an open circuit after the reset time whose
\* ping fails leaves circuit_open true and sets last_circuit_open_time to the
\* time of the call, for every failure_threshold.
C14_FailedProbeReopens ==
    [][(ev'.op = "is_available" /\ ~ev'.up
          /\ cache.circuit_open /\ ResetTimeElapsed(cache, now)) =>
         /\ cache'.circuit_open
         /\ cache'.last_circuit_open_time = now]_vars

\* C15: is_available() returns true only if on return the circuit is closed
\* and a ping succeeded during the call; it returns false when the client is
\* not connected and connecting fails, and never returns true in a call that
\* opened the circuit.
C15_TrueMeansPinged ==
    [][(ev'.op = "is_available" /\ ev'.ret = TRUE) =>
         /\ ~cache'.circuit_open
         /\ ev'.up /\ ev'.cmds >= 1
         /\ cache'.client # None]_vars

\* C16: with the client None and the circuit closed, mget, exists, expire and
\* increment first try to connect: they send to the backend, a backend that
\* answers is connected to, and a failed attempt is counted as a failure.
C16_LazyConnect ==
    [][(ev'.op \in DataOps /\ cache.enabled /\ cache.client = None
          /\ ~cache.circuit_open) =>
         /\ ev'.cmds >= 1
         /\ (cache'.client # None \/ cache'.failure_count = cache.failure_count + 1)]_vars

\* C17: health_check reports "disabled" iff the cache is not enabled; else
\* "unhealthy" iff the circuit is open, the client is None or the ping fails;
\* else "degraded" iff the latency is above 100 ms; else "healthy"; latency 0
\* when disabled or short-circuited; the circuit fields never change.
C17_HealthStatus ==
    [][ev'.op = "health_check" =>
         LET short == cache.circuit_open \/ cache.client = None
             bad == short \/ ~ev'.ping_ok
             st == ev'.ret.status
         IN  /\ (st = "disabled") <=> ~cache.enabled
             /\ (st = "unhealthy") <=> (cache.enabled /\ bad)
             /\ (st = "degraded") <=>
                   (cache.enabled /\ ~bad /\ ev'.measured_ms > LatencyThresholdMs)
             /\ (st = "healthy") <=>
                   (cache.enabled /\ ~bad /\ ev'.measured_ms <= LatencyThresholdMs)
             /\ ((~cache.enabled \/ short) => ev'.ret.latency_ms = 0 /\ ev'.cmds = 0)
             /\ cache' = cache]_vars

\* a failed health-check ping on a threshold-1 client, circuit still closed
C17_Witness ==
    /\ ev.op = "health_check" /\ ~ev.ping_ok /\ ev.ret.status = "unhealthy"
    /\ cache.enabled /\ cache.client # None
    /\ cache.failure_threshold = 1 /\ cache.failure_count = 0 /\ ~cache.circuit_open

\* ================================================================
\* RateLimiter
\* ================================================================
\* In the limiter's specifications the clock `now` counts ticks of
\* 1/TicksPerSecond seconds, so that a request can arrive between two whole
\* seconds; durations configured in seconds are scaled by Seconds().
TicksPerSecond == 2
RLHorizon == 2
MaxChecks == 4

Seconds(n) == n * TicksPerSecond

\* int(time.time())
IntTime_round_up(t) == (t + TicksPerSecond - 1) \div TicksPerSecond

IntTime(t) == t \div TicksPerSecond

RedisCheckCooldown == 5

\* RateLimiter.__init__: the limit/window pairs check_rate_limit reads.
NewLimiter(anon, auth, sensitive) ==
    [ anon_rate_limit |-> anon[1], anon_window |-> anon[2],
      auth_rate_limit |-> auth[1], auth_window |-> auth[2],
      sensitive_rate_limit |-> sensitive[1], sensitive_window |-> sensitive[2],
      redis_check_cooldown |-> RedisCheckCooldown,
      last_redis_check |-> 0 ]

\* check_rate_limit, "Get appropriate limits"
ClassLimit(l, rq) ==
    IF rq.is_sensitive THEN l.sensitive_rate_limit
    ELSE IF rq.is_authenticated THEN l.auth_rate_limit
    ELSE l.anon_rate_limit

ClassWindow(l, rq) ==
    IF rq.is_sensitive THEN l.sensitive_window
    ELSE IF rq.is_authenticated THEN l.auth_window
    ELSE l.anon_window

\* RateLimiter._generate_key: ratelimit:{endpoint_type}:{client_id}
_generate_key(rq) ==
    <<IF rq.is_sensitive THEN "sensitive" ELSE "standard", rq.client_id>>

ClientIds == {"a", "b"}
BucketKeys == {"standard", "sensitive"} \X ClientIds

\* A bucket hash in Redis: fields tokens and last_refill, and the key's expiry.
NoBucket == [present |-> FALSE, tokens |-> 0, last_refill |-> 0, exp |-> 0]
Bucket(tokens, last_refill, exp) ==
    [present |-> TRUE, tokens |-> tokens, last_refill |-> last_refill, exp |-> exp]
BucketLive(b, t) == b.present /\ t < b.exp

\* The token-bucket arithmetic of check_rate_limit, in exact arithmetic:
\* new_tokens = min(limit, current_tokens + elapsed_time * limit / window),
\* kept as the numerator new_tokens * window.
NewTokensTimesWindow_uncapped(current_tokens, elapsed_time, limit, window) ==
    current_tokens * window + elapsed_time * limit

NewTokensTimesWindow(current_tokens, elapsed_time, limit, window) ==
    Min(limit * window, current_tokens * window + elapsed_time * limit)

Refill(current_tokens, elapsed_time, limit, window) ==
    LET num == NewTokensTimesWindow(current_tokens, elapsed_time, limit, window)
        is_allowed == num >= window
    IN  [ is_allowed |-> is_allowed,
          remaining |-> IF is_allowed THEN (num - window) \div window ELSE 0 ]

ReadBucket_touch(st, key, window, t) ==
    LET b == IF BucketLive(st[key], t) THEN st[key] ELSE NoBucket
    IN  [ bucket |-> b,
          store |-> IF b.present
                    THEN [st EXCEPT ![key].exp = t + Seconds(2 * window),
                                    ![key].last_refill = IntTime(t)]
                    ELSE [st EXCEPT ![key] = NoBucket] ]

\* The first pipeline of check_rate_limit (HMGET + EXPIRE in one MULTI/EXEC):
\* what it reads and the store it leaves.
ReadBucket(st, key, window, t) ==
    LET b == IF BucketLive(st[key], t) THEN st[key] ELSE NoBucket
    IN  [ bucket |-> b,
          store |-> IF b.present
                    THEN [st EXCEPT ![key].exp = t + Seconds(2 * window)]
                    ELSE [st EXCEPT ![key] = NoBucket] ]

WriteBucket_one_window(st, key, remaining, window, t) ==
    [st EXCEPT ![key] = Bucket(remaining, IntTime(t), t + Seconds(window))]

\* The second pipeline (MULTI, HMSET, EXPIRE, EXEC).
WriteBucket(st, key, remaining, window, t) ==
    [st EXCEPT ![key] = Bucket(remaining, IntTime(t), t + Seconds(2 * window))]

\* What a check computes from what it read.
Decide(b, limit, window, t) ==
    LET current_tokens == IF b.present THEN b.tokens ELSE limit
        last_refill == IF b.present THEN b.last_refill ELSE IntTime(t)
    IN  Refill(current_tokens, IntTime(t) - last_refill, limit, window)

\* RateLimiter._is_redis_available
_is_redis_available(l, c, t, init_ok, ping_ok) ==
    IF t - l.last_redis_check > Seconds(l.redis_check_cooldown)
    THEN LET r == is_available(c, t, init_ok, ping_ok)
         IN  [limiter |-> [l EXCEPT !.last_redis_check = t], cache |-> r.c,
              ret |-> r.ret, probed |-> TRUE]
    ELSE [limiter |-> l, cache |-> c, ret |-> TRUE, probed |-> FALSE]

FailClosed(limit) == [allowed |-> FALSE, remaining |-> 0]

\* "Fail open to avoid blocking legitimate traffic": return True, limit
FailOpen(limit) == [allowed |-> TRUE, remaining |-> limit]

\* When the backend stops answering during a check: before the connection
\* attempt, before the ping, before the read, before the write, or never.
FailFrom == {"init", "ping", "read", "write", "none"}
Answers(fail_from, command) ==
    CASE command = "init" -> fail_from # "init"
      [] command = "ping" -> fail_from \notin {"init", "ping"}
      [] command = "read" -> fail_from \notin {"init", "ping", "read"}
      [] command = "write" -> fail_from = "none"

\* RateLimiter.check_rate_limit for one request at time t.
check_rate_limit(l, c, st, rq, t, fail_from) ==
    LET limit == ClassLimit(l, rq)
        window == ClassWindow(l, rq)
        key == _generate_key(rq)
        a == _is_redis_available(l, c, t, Answers(fail_from, "init"),
                                 Answers(fail_from, "ping"))
        base == [ limiter |-> a.limiter, cache |-> a.cache, store |-> st,
                  probed |-> a.probed, probe_ret |-> a.ret,
                  client_none |-> FALSE, read_raised |-> FALSE,
                  write_raised |-> FALSE, found |-> FALSE,
                  result |-> FailOpen(limit) ]
    IN  IF ~a.ret THEN base
        ELSE IF a.cache.client = None THEN [base EXCEPT !.client_none = TRUE]
        ELSE IF ~Answers(fail_from, "read") THEN [base EXCEPT !.read_raised = TRUE]
        ELSE LET rd == ReadBucket(st, key, window, t)
                 d == Decide(rd.bucket, limit, window, t)
                 got == [base EXCEPT !.store = rd.store, !.found = rd.bucket.present]
             IN  IF ~d.is_allowed
                 THEN [got EXCEPT !.result = [allowed |-> FALSE, remaining |-> d.remaining]]
                 ELSE IF ~Answers(fail_from, "write")
                 THEN [got EXCEPT !.write_raised = TRUE]
                 ELSE [got EXCEPT !.store = WriteBucket(rd.store, key, d.remaining, window, t),
                                  !.result = [allowed |-> TRUE, remaining |-> d.remaining]]

\* ---------------------------------------------------------------- actions
\* (capacity, window in seconds) of the anonymous, authenticated and
\* sensitive class.
LimitConfigs ==
    { <<<<2, 1>>, <<3, 2>>, <<1, 1>>>>,
      <<<<2, 2>>, <<3, 1>>, <<1, 2>>>> }

Requests ==
    { [client_id |-> "a", is_authenticated |-> FALSE, is_sensitive |-> FALSE],
      [client_id |-> "a", is_authenticated |-> TRUE, is_sensitive |-> FALSE],
      [client_id |-> "b", is_authenticated |-> FALSE, is_sensitive |-> TRUE] }

\* The process has been up for longer than the probe cooldown; the first
\* request arrives on a whole second or between two.
StartTimes ==
    { Seconds(RedisCheckCooldown) + 1, Seconds(RedisCheckCooldown + 1) }

NoScenario == [on |-> FALSE, rq |-> <<>>, t0 |-> 0, k |-> 0, after |-> FALSE]

\* The scenario a check continues or starts: checks of one request class on
\* one bucket, the first finding no stored bucket, all at one clock instant,
\* and then one check exactly window/capacity seconds later.
NextScenario(sc, l, rq, r, t) ==
    LET limit == ClassLimit(l, rq)
        window == ClassWindow(l, rq)
        used == r.probe_ret /\ ~r.client_none /\ ~r.read_raised /\ ~r.write_raised
    IN  IF ~used THEN NoScenario
        ELSE IF ~r.found
        THEN [on |-> TRUE, rq |-> rq, t0 |-> t, k |-> 1, after |-> FALSE]
        ELSE IF sc.on /\ sc.rq = rq /\ ~sc.after /\ t = sc.t0 /\ sc.k <= limit
        THEN [sc EXCEPT !.k = @ + 1]
        ELSE IF /\ sc.on /\ sc.rq = rq /\ ~sc.after /\ sc.k = limit + 1
                /\ Seconds(window) % limit = 0
                /\ t = sc.t0 + (Seconds(window) \div limit)
        THEN [sc EXCEPT !.after = TRUE]
        ELSE NoScenario

InitRL ==
    /\ now \in StartTimes
    /\ steps = 0
    /\ ev = NoEvent
    /\ \E th \in 1..MaxCacheThreshold, ping_ok \in BOOLEAN :
          cache = NewCache(TRUE, "json", th, MaxResetTime, now, ping_ok)
    /\ kv = <<>>
    /\ \E cfg \in LimitConfigs : limiter = NewLimiter(cfg[1], cfg[2], cfg[3])
    /\ store = [k \in BucketKeys |-> NoBucket]
    /\ scn = NoScenario
    /\ cb = <<>> /\ call_count = 0 /\ streak = 0
    /\ pc = <<>> /\ req = <<>>

TickRL ==
    /\ now < Seconds(RedisCheckCooldown + 1) + RLHorizon
    /\ now' = now + 1
    /\ ev' = [op |-> "tick"]
    /\ scn' = IF scn.on /\ scn.k <= ClassLimit(limiter, scn.rq) /\ ~scn.after
              THEN NoScenario ELSE scn
    /\ UNCHANGED <<steps, limiter, store, cbVars, cacheVars, concVars>>

CheckRateLimit ==
    /\ steps < MaxChecks
    /\ \E rq \in Requests, fail_from \in FailFrom :
          \E r \in {check_rate_limit(limiter, cache, store, rq, now, fail_from)} :
              /\ limiter' = r.limiter
              /\ cache' = r.cache
              /\ store' = r.store
              /\ scn' = NextScenario(scn, limiter, rq, r, now)
              /\ ev' = [ op |-> "check", rq |-> rq,
                         probed |-> r.probed, probe_ret |-> r.probe_ret,
                         client_none |-> r.client_none,
                         read_raised |-> r.read_raised,
                         write_raised |-> r.write_raised,
                         allowed |-> r.result.allowed,
                         remaining |-> r.result.remaining ]
    /\ steps' = steps + 1
    /\ UNCHANGED <<now, kv, cbVars, concVars>>

NextRL == TickRL \/ CheckRateLimit

SpecRL == InitRL /\ [][NextRL]_vars

\* ================================================================
\* Properties of the RateLimiter, one request at a time (checked under SpecRL)
\* ================================================================
\* The store was unavailable to the last check: the probe answered false, the
\* client was not connected, or a store command raised.
StoreUnavailable ==
    \/ (ev.probed /\ ~ev.probe_ret)
    \/ ev.client_none
    \/ ev.read_raised
    \/ ev.write_raised

\* C8: from no stored bucket, C checks of one identity and class at one
\* instant are allowed with remaining C-1, ..., 0, the (C+1)-th is denied, and
\* a check exactly W/C seconds later is allowed with remaining 0.
C8_BurstThenRefill ==
    (ev.op = "check" /\ scn.on) =>
        IF scn.after THEN ev.allowed /\ ev.remaining = 0
        ELSE IF scn.k <= ClassLimit(limiter, scn.rq)
        THEN ev.allowed /\ ev.remaining = ClassLimit(limiter, scn.rq) - scn.k
        ELSE ~ev.allowed

\* C9: when the store is unavailable the check fails open: allowed, with
\* remaining the full limit of the request's class, whatever was consumed
\* before.
C9_FailOpen ==
    (ev.op = "check" /\ StoreUnavailable) =>
        /\ ev.allowed
        /\ ev.remaining = ClassLimit(limiter, ev.rq)

\* the bucket of the request is exhausted in the store, and the check that
\* could not read it reports the full limit
C9_Witness ==
    /\ ev.op = "check"
    /\ ev.read_raised
    /\ BucketLive(store[_generate_key(ev.rq)], now)
    /\ store[_generate_key(ev.rq)].tokens = 0
    /\ ev.allowed
    /\ ev.remaining = ClassLimit(limiter, ev.rq)
    /\ ev.remaining >= 2

\* ================================================================
\* RateLimiter, concurrent requests on one bucket at one clock instant
\* ================================================================
NProcs == 2
Procs == 1..NProcs

\* The request every concurrent check is for (one identity, one class).
ConcRequest == [client_id |-> "a", is_authenticated |-> FALSE, is_sensitive |-> FALSE]

NoLocals == [bucket |-> NoBucket, allowed |-> FALSE, remaining |-> 0]

InitRLConc ==
    /\ now = Seconds(RedisCheckCooldown + 1)
    /\ steps = 0
    /\ ev = NoEvent
    /\ cache = NewCache(TRUE, "json", 1, 1, now, TRUE)
    /\ kv = <<>>
    /\ \E cfg \in LimitConfigs : limiter = NewLimiter(cfg[1], cfg[2], cfg[3])
    /\ \E b \in {NoBucket} \cup
                { Bucket(n, IntTime(now),
                         now + Seconds(2 * ClassWindow(limiter, ConcRequest)))
                  : n \in 0..ClassLimit(limiter, ConcRequest) } :
          /\ store = [k \in BucketKeys |-> IF k = _generate_key(ConcRequest) THEN b
                                           ELSE NoBucket]
          /\ scn = [tokens0 |-> IF b.present THEN b.tokens
                                ELSE ClassLimit(limiter, ConcRequest)]
    /\ pc = [p \in Procs |-> "available"]
    /\ req = [p \in Procs |-> NoLocals]
    /\ cb = <<>> /\ call_count = 0 /\ streak = 0

ConcFrame == UNCHANGED <<now, steps, ev, scn, kv, cbVars>>

\* if self._is_redis_available(): (the backend answers)
ConcAvailable(p) ==
    /\ pc[p] = "available"
    /\ \E a \in {_is_redis_available(limiter, cache, now, TRUE, TRUE)} :
          /\ limiter' = a.limiter
          /\ cache' = a.cache
          /\ pc' = [pc EXCEPT ![p] = IF a.ret /\ a.cache.client # None
                                     THEN "read" ELSE "done"]
          /\ req' = IF a.ret /\ a.cache.client # None THEN req
                    ELSE [req EXCEPT ![p].allowed = TRUE,
                                     ![p].remaining = ClassLimit(limiter, ConcRequest)]
    /\ UNCHANGED store
    /\ ConcFrame

\* the first pipe.execute(): HMGET and EXPIRE
ConcRead(p) ==
    /\ pc[p] = "read"
    /\ \E rd \in {ReadBucket(store, _generate_key(ConcRequest),
                             ClassWindow(limiter, ConcRequest), now)} :
          /\ store' = rd.store
          /\ req' = [req EXCEPT ![p].bucket = rd.bucket]
    /\ pc' = [pc EXCEPT ![p] = "write"]
    /\ UNCHANGED <<limiter, cache>>
    /\ ConcFrame

\* the refill arithmetic on what was read, then the second pipe.execute()
ConcWrite(p) ==
    /\ pc[p] = "write"
    /\ \E d \in {Decide(req[p].bucket, ClassLimit(limiter, ConcRequest),
                        ClassWindow(limiter, ConcRequest), now)} :
          /\ store' = IF d.is_allowed
                      THEN WriteBucket(store, _generate_key(ConcRequest), d.remaining,
                                       ClassWindow(limiter, ConcRequest), now)
                      ELSE store
          /\ req' = [req EXCEPT ![p].allowed = d.is_allowed,
                                ![p].remaining = d.remaining]
    /\ pc' = [pc EXCEPT ![p] = "done"]
    /\ UNCHANGED <<limiter, cache>>
    /\ ConcFrame

NextRLConc == \E p \in Procs : ConcAvailable(p) \/ ConcRead(p) \/ ConcWrite(p)

SpecRLConc == InitRLConc /\ [][NextRLConc]_vars

\* C1: concurrent checks on one bucket at one instant never allow more
\* requests than the bucket held tokens, and as many checks as it held tokens
\* are all allowed and leave 0 tokens.
ConcAllowed == {p \in Procs : req[p].allowed}

C1_AtomicChecks ==
    (\A p \in Procs : pc[p] = "done") =>
        /\ Cardinality(ConcAllowed) <= scn.tokens0
        /\ (scn.tokens0 = NProcs =>
              /\ Cardinality(ConcAllowed) = NProcs
              /\ store[_generate_key(ConcRequest)].tokens = 0)

\* ================================================================
\* CircuitBreaker, concurrent callers of one breaker (threads of one process)
\* ================================================================
\* call() takes no lock: between the statements of one call the other threads
\* run.  A call is cut where it reads or writes the breaker's fields:
\*   CallStart   the OPEN test and _should_attempt_recovery (lines 67-68, 71-74)
\*   ToHalfOpen  _transition_to_half_open, then func is invoked (lines 69, 77)
\*   OnSuccess   func returned; success_count and the HALF_OPEN test (126-128)
\*   ToClosed    _transition_to_closed (line 129)
\*   OnFailure   func raised; the counters and the threshold test (133-142)
\*   ToOpen      _transition_to_open (line 143)
\*   Whitelisted func raised a whitelisted exception (lines 81-83)
MaxConcCalls == 4
MaxConcTime == 3

NoTrials == [trials |-> 0]

\* Invocations admitted in the present HALF_OPEN period, the transition's own
\* included; 0 outside HALF_OPEN.
Trials(b0, b1, sc, invoked) ==
    IF b1.state # HALF_OPEN THEN NoTrials
    ELSE IF b0.state # HALF_OPEN THEN [trials |-> 1]
    ELSE IF invoked THEN [trials |-> sc.trials + 1]
    ELSE sc

InitCBConc ==
    /\ now = 1
    /\ steps = 0
    /\ \E th \in 1..2, wl \in {{}, {"ValueError"}} : cb = NewBreaker(th, 1, wl, 1)
    /\ call_count = 0
    /\ streak = 0
    /\ ev = NoEvent
    /\ scn = NoTrials
    /\ pc = [p \in Procs |-> "idle"]
    /\ req = [p \in Procs |-> <<>>]
    /\ cache = <<>> /\ kv = <<>>
    /\ limiter = <<>> /\ store = <<>>

CBConcFrame == UNCHANGED <<streak, req, cacheVars, limiter, store>>

ConcTick ==
    /\ now < MaxConcTime
    /\ now' = now + 1
    /\ ev' = [op |-> "tick"]
    /\ UNCHANGED <<steps, cb, call_count, scn, pc>>
    /\ CBConcFrame

CallStart(p) ==
    /\ pc[p] = "idle"
    /\ steps < MaxConcCalls
    /\ steps' = steps + 1
    /\ IF cb.state = OPEN
       THEN IF _should_attempt_recovery(cb, now)
            THEN /\ pc' = [pc EXCEPT ![p] = "to_half_open"]
                 /\ UNCHANGED <<cb, call_count, scn>>
            ELSE /\ cb' = _increment_rejected(cb)
                 /\ UNCHANGED <<pc, call_count, scn>>
       ELSE /\ pc' = [pc EXCEPT ![p] = "running"]
            /\ call_count' = call_count + 1
            /\ scn' = Trials(cb, cb, scn, TRUE)
            /\ UNCHANGED cb
    /\ ev' = [op |-> "call", p |-> p]
    /\ UNCHANGED now
    /\ CBConcFrame

ToHalfOpen(p) ==
    /\ pc[p] = "to_half_open"
    /\ cb' = _transition_to_half_open(cb, now)
    /\ pc' = [pc EXCEPT ![p] = "running"]
    /\ call_count' = call_count + 1
    /\ scn' = Trials(cb, cb', scn, TRUE)
    /\ ev' = [op |-> "to_half_open", p |-> p]
    /\ UNCHANGED <<now, steps>>
    /\ CBConcFrame

OnSuccess(p) ==
    /\ pc[p] = "running"
    /\ cb' = [cb EXCEPT !.metrics.success_count = @ + 1]
    /\ pc' = [pc EXCEPT ![p] = IF cb.state = HALF_OPEN THEN "to_closed" ELSE "idle"]
    /\ ev' = [op |-> "on_success", p |-> p]
    /\ UNCHANGED <<now, steps, call_count, scn>>
    /\ CBConcFrame

ToClosed(p) ==
    /\ pc[p] = "to_closed"
    /\ cb' = _transition_to_closed(cb, now)
    /\ pc' = [pc EXCEPT ![p] = "idle"]
    /\ scn' = Trials(cb, cb', scn, FALSE)
    /\ ev' = [op |-> "to_closed", p |-> p]
    /\ UNCHANGED <<now, steps, call_count>>
    /\ CBConcFrame

OnFailure(p) ==
    /\ pc[p] = "running"
    /\ \E outcome \in Outcomes :
          /\ IsFailure(cb, outcome)
          /\ cb' = [cb EXCEPT !.last_failure_time = now,
                              !.failure_count = @ + 1,
                              !.metrics.failure_count = @ + 1,
                              !.metrics.last_failure_time = now]
    /\ pc' = [pc EXCEPT ![p] =
                 IF cb'.state = HALF_OPEN \/ cb'.failure_count >= cb'.failure_threshold
                 THEN "to_open" ELSE "idle"]
    /\ ev' = [op |-> "on_failure", p |-> p]
    /\ UNCHANGED <<now, steps, call_count, scn>>
    /\ CBConcFrame

ToOpen(p) ==
    /\ pc[p] = "to_open"
    /\ cb' = _transition_to_open(cb, now)
    /\ pc' = [pc EXCEPT ![p] = "idle"]
    /\ scn' = Trials(cb, cb', scn, FALSE)
    /\ ev' = [op |-> "to_open", p |-> p]
    /\ UNCHANGED <<now, steps, call_count>>
    /\ CBConcFrame

Whitelisted(p) ==
    /\ pc[p] = "running"
    /\ \E outcome \in cb.exception_whitelist :
          ev' = [op |-> "whitelisted", p |-> p]
    /\ pc' = [pc EXCEPT ![p] = "idle"]
    /\ UNCHANGED <<now, steps, cb, call_count, scn>>
    /\ CBConcFrame

\* reset() called by another thread
ConcReset ==
    /\ steps < MaxConcCalls
    /\ steps' = steps + 1
    /\ cb' = reset(cb, now)
    /\ scn' = Trials(cb, cb', scn, FALSE)
    /\ ev' = [op |-> "reset"]
    /\ UNCHANGED <<now, call_count, pc>>
    /\ CBConcFrame

NextCBConc ==
    \/ ConcTick
    \/ ConcReset
    \/ \E p \in Procs :
          \/ CallStart(p) \/ ToHalfOpen(p)
          \/ OnSuccess(p) \/ ToClosed(p)
          \/ OnFailure(p) \/ ToOpen(p)
          \/ Whitelisted(p)

SpecCBConc == InitCBConc /\ [][NextCBConc]_vars

\* C18: in one HALF_OPEN period, from the OPEN to HALF_OPEN transition to the
\* next transition out of HALF_OPEN, at most one invocation of the wrapped
\* operation is admitted, under every interleaving of the callers.
C18_OneTrial == (cb.state = HALF_OPEN) => (scn.trials <= 1)

\* C19: the breaker starts CLOSED and its state changes only CLOSED to OPEN
\* with failure_count at the threshold, OPEN to HALF_OPEN with the timeout
\* elapsed, HALF_OPEN to CLOSED, HALF_OPEN to OPEN, or to CLOSED by reset(),
\* under every interleaving of concurrent calls.
C19_StateChange ==
    \/ cb'.state = cb.state
    \/ (ev'.op = "reset" /\ cb'.state = CLOSED)
    \/ (cb.state = CLOSED /\ cb'.state = OPEN
          /\ cb'.failure_count >= cb'.failure_threshold)
    \/ (cb.state = OPEN /\ cb'.state = HALF_OPEN
          /\ now - cb.last_failure_time >= cb.recovery_timeout)
    \/ (cb.state = HALF_OPEN /\ cb'.state \in {CLOSED, OPEN})

C19_Transitions == (cb.state = CLOSED) /\ [][C19_StateChange]_vars

\* ================================================================
\* RateLimiter, checks of several processes overlapping while time passes
\* ================================================================
\* Each process runs check_rate_limit again and again on the shared store; a
\* check takes `now` once (line 173) and uses that value in its refill and as
\* the last_refill it writes, however late its pipelines run.
MaxSharedChecks == 2

NoCheck == [rq |-> <<>>, t |-> 0, bucket |-> NoBucket]

\* The overlapping checks are those of one client identity: its anonymous
\* and its authenticated requests, which use the same bucket key.
SharedRequests == {rq \in Requests : rq.client_id = "a"}

InitRLShared ==
    /\ now = Seconds(RedisCheckCooldown + 1)
    /\ steps = 0
    /\ ev = NoEvent
    /\ cache = NewCache(TRUE, "json", 1, 1, now, TRUE)
    /\ kv = <<>>
    /\ \E cfg \in LimitConfigs : limiter = NewLimiter(cfg[1], cfg[2], cfg[3])
    /\ store = [k \in BucketKeys |-> NoBucket]
    /\ scn = NoScenario
    /\ pc = [p \in Procs |-> "idle"]
    /\ req = [p \in Procs |-> NoCheck]
    /\ cb = <<>> /\ call_count = 0 /\ streak = 0

SharedFrame == UNCHANGED <<scn, kv, cbVars>>

SharedTick ==
    /\ now < Seconds(RedisCheckCooldown + 2)
    /\ now' = now + 1
    /\ ev' = [op |-> "tick"]
    /\ UNCHANGED <<steps, limiter, cache, store, pc, req>>
    /\ SharedFrame

\* now = int(time.time()); if self._is_redis_available():
SharedStart(p) ==
    /\ pc[p] = "idle"
    /\ steps < MaxSharedChecks
    /\ steps' = steps + 1
    /\ \E rq \in SharedRequests :
          \E a \in {_is_redis_available(limiter, cache, now, TRUE, TRUE)} :
              /\ limiter' = a.limiter
              /\ cache' = a.cache
              /\ req' = [req EXCEPT ![p] = [rq |-> rq, t |-> now, bucket |-> NoBucket]]
    /\ pc' = [pc EXCEPT ![p] = "read"]
    /\ ev' = [op |-> "start"]
    /\ UNCHANGED <<now, store>>
    /\ SharedFrame

\* the first pipe.execute()
SharedRead(p) ==
    /\ pc[p] = "read"
    /\ \E rd \in {ReadBucket(store, _generate_key(req[p].rq),
                             ClassWindow(limiter, req[p].rq), now)} :
          /\ store' = rd.store
          /\ req' = [req EXCEPT ![p].bucket = rd.bucket]
    /\ pc' = [pc EXCEPT ![p] = "write"]
    /\ ev' = [op |-> "read"]
    /\ UNCHANGED <<now, steps, limiter, cache>>
    /\ SharedFrame

\* the refill from what was read and the check's own `now`; the second
\* pipe.execute() when allowed
SharedWrite(p) ==
    /\ pc[p] = "write"
    /\ LET rq == req[p].rq
           b == req[p].bucket
           limit == ClassLimit(limiter, rq)
           window == ClassWindow(limiter, rq)
           key == _generate_key(rq)
           current_tokens == IF b.present THEN b.tokens ELSE limit
           last_refill == IF b.present THEN b.last_refill ELSE IntTime(req[p].t)
           d == Decide(b, limit, window, req[p].t)
       IN  /\ store' = IF d.is_allowed
                       THEN [WriteBucket(store, key, d.remaining, window, now)
                               EXCEPT ![key].last_refill = IntTime(req[p].t)]
                       ELSE store
           /\ ev' = [ op |-> "check", rq |-> rq, found |-> b.present,
                      elapsed_time |-> IntTime(req[p].t) - last_refill,
                      new_tokens_times_window |->
                          NewTokensTimesWindow(current_tokens,
                                               IntTime(req[p].t) - last_refill,
                                               limit, window),
                      allowed |-> d.is_allowed, remaining |-> d.remaining ]
    /\ pc' = [pc EXCEPT ![p] = "idle"]
    /\ req' = [req EXCEPT ![p] = NoCheck]
    /\ UNCHANGED <<now, steps, limiter, cache>>
    /\ SharedFrame

NextRLShared ==
    \/ SharedTick
    \/ \E p \in Procs : SharedStart(p) \/ SharedRead(p) \/ SharedWrite(p)

SpecRLShared == InitRLShared /\ [][NextRLShared]_vars

\* The largest capacity of the request classes that use a bucket key.
KeyCapacity(l, key) ==
    IF key[1] = "sensitive" THEN l.sensitive_rate_limit
    ELSE IF l.auth_rate_limit >= l.anon_rate_limit THEN l.auth_rate_limit
    ELSE l.anon_rate_limit

\* C20: under every interleaving of checks by several processes the stored
\* token count of every bucket is between 0 and the capacity, what a check
\* writes is between 0 and the capacity of its class, and the refilled value
\* a check computes is at most that capacity however long the key was idle.
C20_StoredWithinCapacity ==
    \A key \in BucketKeys :
        store[key].present =>
            (0 <= store[key].tokens /\ store[key].tokens <= KeyCapacity(limiter, key))

C20_CheckWithinCapacity ==
    ev'.op = "check" =>
        LET limit == ClassLimit(limiter, ev'.rq)
            key == _generate_key(ev'.rq)
        IN  /\ ev'.new_tokens_times_window <= limit * ClassWindow(limiter, ev'.rq)
            /\ (ev'.allowed =>
                  /\ store'[key].present
                  /\ 0 <= store'[key].tokens /\ store'[key].tokens <= limit)

C20_TokensBounded ==
    /\ []C20_StoredWithinCapacity
    /\ [][C20_CheckWithinCapacity]_vars

\* a check whose refill was cut at the capacity: the bucket it read held
\* tokens and had been idle for longer than it takes to fill up
C20_Witness ==
    /\ ev.op = "check" /\ ev.allowed /\ ev.found
    /\ ev.elapsed_time >= ClassWindow(limiter, ev.rq)
    /\ ev.new_tokens_times_window =
          ClassLimit(limiter, ev.rq) * ClassWindow(limiter, ev.rq)
    /\ ev.remaining = ClassLimit(limiter, ev.rq) - 1
    /\ store[_generate_key(ev.rq)].tokens = ev.remaining

\* ================================================================
\* Properties of single checks (checked under SpecRL)
\* ================================================================
\* C21: a denied check leaves the stored tokens and last_refill of its bucket
\* as they were and touches no other bucket; all it may change in the store
\* is its key's expiry, so the time since last_refill goes on counting.
C21_DeniedLeavesBucket ==
    [][(ev'.op = "check" /\ ~ev'.allowed) =>
         LET key == _generate_key(ev'.rq)
         IN  /\ store[key].present /\ store'[key].present
             /\ store'[key].tokens = store[key].tokens
             /\ store'[key].last_refill = store[key].last_refill
             /\ store'[key].exp = now + Seconds(2 * ClassWindow(limiter, ev'.rq))
             /\ \A k \in BucketKeys \ {key} : store'[k] = store[k]]_vars

\* a check denied a whole second after the bucket's last refill: the
\* half-grown token is not thrown away
C21_Witness ==
    /\ ev.op = "check" /\ ~ev.allowed
    /\ store[_generate_key(ev.rq)].present
    /\ store[_generate_key(ev.rq)].last_refill < IntTime(now)
    /\ store[_generate_key(ev.rq)].exp = now + Seconds(2 * ClassWindow(limiter, ev.rq))

\* ------------------------------------------------------------------------
\* RateLimiter.rate_limit_dependency: the request path, the protected
\* prefixes, the check and the rejection.
\* ------------------------------------------------------------------------
MaxDepCalls == 3

Max(a, b) == IF a >= b THEN a ELSE b

\* A path is the sequence of the pieces of its text, so that
\* str.startswith is the prefix relation on sequences.
IsPrefix(p, s) == Len(p) <= Len(s) /\ SubSeq(s, 1, Len(p)) = p

\* "Set default protected paths if none provided": protected_paths or [...]
DefaultProtectedPaths ==
    << <<"/api/v1/", "predict">>, <<"/api/v1/", "batch-predict">> >>

ProtectedPaths(protected_paths) ==
    IF protected_paths.given /\ protected_paths.list # <<>>
    THEN protected_paths.list
    ELSE DefaultProtectedPaths

\* RateLimiter.__init__ with its protected_paths argument.
NewRateLimiter(anon, auth, sensitive, protected_paths) ==
    [ anon_rate_limit |-> anon[1], anon_window |-> anon[2],
      auth_rate_limit |-> auth[1], auth_window |-> auth[2],
      sensitive_rate_limit |-> sensitive[1], sensitive_window |-> sensitive[2],
      redis_check_cooldown |-> RedisCheckCooldown,
      last_redis_check |-> 0,
      protected_paths |-> ProtectedPaths(protected_paths) ]

IsProtected_exact(l, path) ==
    \E i \in 1..Len(l.protected_paths) : l.protected_paths[i] = path

\* any(path.startswith(p) for p in self.protected_paths)
IsProtected(l, path) ==
    \E i \in 1..Len(l.protected_paths) : IsPrefix(l.protected_paths[i], path)

\* RateLimiter.get_limit_headers
get_limit_headers(remaining, window, t) ==
    [ remaining |-> remaining, reset |-> IntTime(t) + window ]

\* int(x) of a difference of clock readings d (in ticks): truncation
\* towards zero.
IntSeconds(d) ==
    IF d >= 0 THEN d \div TicksPerSecond ELSE 0 - ((0 - d) \div TicksPerSecond)

\* getattr(request.state, "rate_limit_reset", 0): nothing sets the attribute.
RateLimitReset == 0

\* retry_after = max(1, int(reset_time - time.time()))
RetryAfter(reset_time, t) == Max(1, IntSeconds(Seconds(reset_time) - t))

\* RateLimiter.rate_limit_dependency for one request at time t.
rate_limit_dependency(l, c, st, path, rq, t, fail_from) ==
    IF ~IsProtected(l, path)
    THEN [ limiter |-> l, cache |-> c, store |-> st, checked |-> FALSE,
           probed |-> FALSE, allowed |-> TRUE, remaining |-> 0,
           headers |-> [remaining |-> 0, reset |-> 0], rejected |-> FALSE, retry_after |-> 0,
           reset_time |-> 0 ]
    ELSE LET r == check_rate_limit(l, c, st, rq, t, fail_from)
         IN  [ limiter |-> r.limiter, cache |-> r.cache, store |-> r.store,
               checked |-> TRUE, probed |-> r.probed,
               allowed |-> r.result.allowed,
               remaining |-> r.result.remaining,
               headers |-> get_limit_headers(r.result.remaining,
                                             ClassWindow(l, rq), t),
               rejected |-> ~r.result.allowed,
               retry_after |-> IF r.result.allowed THEN 0
                               ELSE RetryAfter(RateLimitReset, t),
               reset_time |-> RateLimitReset ]

\* Request paths: a protected endpoint, a longer path that begins with its
\* text (/api/v1/predictions), and two paths outside the default prefixes.
DepPaths ==
    { <<"/api/v1/", "predict">>, <<"/api/v1/", "predict", "ions">>,
      <<"/api/v1/", "models">>, <<"/health">> }

\* The protected_paths argument: left out, an empty list, a list of one prefix.
ProtectedPathsArgs ==
    { [given |-> FALSE, list |-> <<>>],
      [given |-> TRUE, list |-> <<>>],
      [given |-> TRUE, list |-> << <<"/api/v1/", "models">> >>] }

InitRLDep ==
    /\ now \in StartTimes
    /\ steps = 0
    /\ ev = NoEvent
    /\ \E ping_ok \in BOOLEAN :
          cache = NewCache(TRUE, "json", 1, MaxResetTime, now, ping_ok)
    /\ kv = <<>>
    /\ \E cfg \in LimitConfigs, pp \in ProtectedPathsArgs :
          limiter = NewRateLimiter(cfg[1], cfg[2], cfg[3], pp)
    /\ store = [k \in BucketKeys |-> NoBucket]
    /\ scn = NoScenario
    /\ cb = <<>> /\ call_count = 0 /\ streak = 0
    /\ pc = <<>> /\ req = <<>>

TickRLDep ==
    /\ now < Seconds(RedisCheckCooldown + 1) + RLHorizon
    /\ now' = now + 1
    /\ ev' = [op |-> "tick"]
    /\ UNCHANGED <<steps, rlVars, cbVars, cacheVars, concVars>>

RateLimitDependency ==
    /\ steps < MaxDepCalls
    /\ \E path \in DepPaths, rq \in Requests, fail_from \in FailFrom :
          \E r \in {rate_limit_dependency(limiter, cache, store, path, rq,
                                          now, fail_from)} :
              /\ limiter' = r.limiter
              /\ cache' = r.cache
              /\ store' = r.store
              /\ ev' = [ op |-> "dependency", path |-> path, rq |-> rq,
                         checked |-> r.checked, probed |-> r.probed,
                         rejected |-> r.rejected,
                         retry_after |-> r.retry_after ]
    /\ steps' = steps + 1
    /\ UNCHANGED <<now, kv, scn, cbVars, concVars>>

NextRLDep == TickRLDep \/ RateLimitDependency

SpecRLDep == InitRLDep /\ [][NextRLDep]_vars

\* The least number of whole seconds after time t at which a check of
\* request rq would be allowed, given the store st.
WaitCandidates == 1..5

AllowedIn(l, st, rq, t, n) ==
    LET window == ClassWindow(l, rq)
        rd == ReadBucket(st, _generate_key(rq), window, t + Seconds(n))
    IN  Decide(rd.bucket, ClassLimit(l, rq), window, t + Seconds(n)).is_allowed

\* C22: the retry-after hint of a rejection is the least number of whole
\* seconds after which a check for the same key would be allowed.
C22_RetryAfterIsLeastWait ==
    (ev.op = "dependency" /\ ev.rejected) =>
        /\ AllowedIn(limiter, store, ev.rq, now, ev.retry_after)
        /\ \A n \in WaitCandidates :
              n < ev.retry_after => ~AllowedIn(limiter, store, ev.rq, now, n)

\* C23: a request whose path starts with no protected prefix bypasses the
\* limiter (no check, no probe, no change of limiter, cache client or
\* buckets, no rejection); a path with a protected prefix is checked.
C23_UnprotectedBypasses ==
    [][ev'.op = "dependency" =>
          IF \E i \in 1..Len(limiter.protected_paths) :
                 IsPrefix(limiter.protected_paths[i], ev'.path)
          THEN ev'.checked
          ELSE /\ ~ev'.checked /\ ~ev'.probed /\ ~ev'.rejected
               /\ limiter' = limiter /\ cache' = cache /\ store' = store]_vars

\* A request outside the prefixes passes untouched while the bucket of its
\* key is empty and has had no time to refill, so that a check would deny it.
C23_Witness ==
    /\ ev.op = "dependency"
    /\ ~IsProtected(limiter, ev.path) /\ ~ev.checked /\ ~ev.rejected
    /\ store[_generate_key(ev.rq)].present
    /\ store[_generate_key(ev.rq)].tokens = 0
    /\ store[_generate_key(ev.rq)].last_refill = IntTime(now)

\* ------------------------------------------------------------------------
\* EnhancedRedisCache._serialize / _deserialize as functions of the
\* configured format, applied to Python values.
\* ------------------------------------------------------------------------
MaxItems == 2

\* Python values: None, int, str, list, tuple, dict.  A dict is the sequence
\* of its (key, value) pairs in insertion order.
VNone == [py |-> "None", n |-> 0, s |-> "", items |-> <<>>]
VInt(n) == [py |-> "int", n |-> n, s |-> "", items |-> <<>>]
VStr(s) == [py |-> "str", n |-> 0, s |-> s, items |-> <<>>]
VList(items) == [py |-> "list", n |-> 0, s |-> "", items |-> items]
VTuple(items) == [py |-> "tuple", n |-> 0, s |-> "", items |-> items]
VPair(k, v) == [py |-> "pair", n |-> 0, s |-> "", items |-> <<k, v>>]
VDict(pairs) == [py |-> "dict", n |-> 0, s |-> "", items |-> pairs]

\* The lexemes of a serialized value (separators left out).
Tok(t, n, s) == [t |-> t, n |-> n, s |-> s]

\* str(n) of the integers of the model.
IntStr(n) == CASE n = 0 -> "0" [] n = 1 -> "1" [] n = 2 -> "2" [] OTHER -> "n"

RECURSIVE Encode(_, _)
RECURSIVE EncodeAll(_, _)
\* json.dumps writes a dict key as a string, whatever it was.
EncodeKey(format, k) ==
    IF format = "json"
    THEN <<Tok("str", 0, IF k.py = "str" THEN k.s ELSE IntStr(k.n))>>
    ELSE Encode(format, k)

EncodeAll(format, items) ==
    IF items = <<>> THEN <<>>
    ELSE LET x == Head(items)
         IN  (IF x.py = "pair"
              THEN EncodeKey(format, x.items[1]) \o Encode(format, x.items[2])
              ELSE Encode(format, x)) \o EncodeAll(format, Tail(items))

\* json.dumps writes lists and tuples alike as arrays; pickle.dumps keeps
\* the type of every object.
Encode(format, v) ==
    CASE v.py = "None" -> <<Tok("null", 0, "")>>
      [] v.py = "int" -> <<Tok("int", v.n, "")>>
      [] v.py = "str" -> <<Tok("str", 0, v.s)>>
      [] v.py = "list" \/ (v.py = "tuple" /\ format = "json") ->
            <<Tok("[", 0, "")>> \o EncodeAll(format, v.items) \o <<Tok("]", 0, "")>>
      [] v.py = "tuple" ->
            <<Tok("(", 0, "")>> \o EncodeAll(format, v.items) \o <<Tok(")", 0, "")>>
      [] v.py = "dict" ->
            <<Tok("{", 0, "")>> \o EncodeAll(format, v.items) \o <<Tok("}", 0, "")>>

RECURSIVE Parse(_, _)
RECURSIVE ParseItems(_, _, _, _)
RECURSIVE ParseMembers(_, _, _)
\* Reads the items of a sequence up to its closing bracket.
ParseItems(data, i, close, acc) ==
    IF data[i].t = close THEN [v |-> acc, next |-> i + 1]
    ELSE LET x == Parse(data, i)
         IN  ParseItems(data, x.next, close, Append(acc, x.v))

ParseMembers(data, i, acc) ==
    IF data[i].t = "}" THEN [v |-> acc, next |-> i + 1]
    ELSE LET k == Parse(data, i)
             x == Parse(data, k.next)
         IN  ParseMembers(data, x.next, Append(acc, VPair(k.v, x.v)))

\* json.loads / pickle.loads: the value that starts at lexeme i, and the
\* index after it.
Parse(data, i) ==
    CASE data[i].t = "null" -> [v |-> VNone, next |-> i + 1]
      [] data[i].t = "int" -> [v |-> VInt(data[i].n), next |-> i + 1]
      [] data[i].t = "str" -> [v |-> VStr(data[i].s), next |-> i + 1]
      [] data[i].t = "[" ->
            LET r == ParseItems(data, i + 1, "]", <<>>)
            IN  [v |-> VList(r.v), next |-> r.next]
      [] data[i].t = "(" ->
            LET r == ParseItems(data, i + 1, ")", <<>>)
            IN  [v |-> VTuple(r.v), next |-> r.next]
      [] data[i].t = "{" ->
            LET r == ParseMembers(data, i + 1, <<>>)
            IN  [v |-> VDict(r.v), next |-> r.next]

\* What _serialize returns: bytes from pickle.dumps, str from json.dumps.
\* NoValue is Python's None where a serialized value is expected.
NoValue == [type |-> "None", data |-> <<>>]

\* EnhancedRedisCache._serialize
_serialize(format, value) ==
    IF format = "pickle"
    THEN [type |-> "bytes", data |-> Encode("pickle", value)]
    ELSE [type |-> "str", data |-> Encode("json", value)]

\* EnhancedRedisCache._deserialize applied to what _serialize returned (or
\* to None).
_deserialize_serialized(format, value) ==
    IF value.type = "None" THEN VNone
    ELSE Parse(value.data, 1).v

\* The values of the model: atoms, sequences of up to MaxItems atoms,
\* one-entry dicts, and a list or dict that holds one such container.
Atoms == {VInt(0), VInt(1), VStr("a"), VStr("1")}
AtomSeqs == UNION {[1..n -> Atoms] : n \in 0..MaxItems}
DictKeys == {VInt(1), VStr("a")}
Containers ==
    {VList(q) : q \in AtomSeqs} \cup {VTuple(q) : q \in AtomSeqs}
    \cup {VDict(<<>>)}
    \cup {VDict(<<VPair(k, a)>>) : k \in DictKeys, a \in Atoms}
CacheableValues ==
    Atoms \cup Containers
    \cup {VList(<<x>>) : x \in Containers}
    \cup {VDict(<<VPair(VStr("a"), x)>>) : x \in Containers}

InitSer ==
    /\ \E format \in {"json", "pickle"} : cache = [serialization_format |-> format]
    /\ req \in CacheableValues
    /\ kv = NoValue
    /\ steps = 0
    /\ ev = NoEvent
    /\ now = 0 /\ cb = <<>> /\ call_count = 0 /\ streak = 0
    /\ limiter = <<>> /\ store = <<>> /\ scn = <<>> /\ pc = <<>>

SerFrame == UNCHANGED <<now, cache, req, cbVars, rlVars, pc>>

Serialize ==
    /\ steps = 0
    /\ kv' = _serialize(cache.serialization_format, req)
    /\ ev' = [op |-> "serialize"]
    /\ steps' = 1
    /\ SerFrame

Deserialize ==
    /\ steps = 1
    /\ ev' = [ op |-> "deserialize",
               ret |-> _deserialize_serialized(cache.serialization_format, kv) ]
    /\ steps' = 2
    /\ UNCHANGED kv
    /\ SerFrame

DeserializeNone ==
    /\ steps = 0
    /\ ev' = [ op |-> "deserialize_none",
               ret |-> _deserialize_serialized(cache.serialization_format, NoValue) ]
    /\ steps' = 3
    /\ UNCHANGED kv
    /\ SerFrame

NextSer == Serialize \/ Deserialize \/ DeserializeNone

SpecSer == InitSer /\ [][NextSer]_vars

\* C24: for every cacheable value v and each format,
\* _deserialize(_serialize(v)) = v, and _deserialize(None) is None.
C24_RoundTrip ==
    /\ ev.op = "deserialize" => ev.ret = req
    /\ ev.op = "deserialize_none" => ev.ret = VNone

\* ------------------------------------------------------------------------
\* The breaker's count against the run of failures that ends with the most
\* recent completed call.
\* ------------------------------------------------------------------------
\* The number of completed calls at the end of the history that were all
\* non-whitelisted failures (a rejected call completes nothing).
NextRun(run, r, b0, outcome) ==
    IF ~r.invoked THEN run
    ELSE IF IsFailure(b0, outcome) THEN run + 1
    ELSE 0

InitCBRun ==
    /\ now = 1
    /\ steps = 0
    /\ \E th \in 1..MaxThreshold, to \in 1..MaxTimeout,
          wl \in {{}, {"ValueError"}} :
          cb = NewBreaker(th, to, wl, 1)
    /\ call_count = 0
    /\ streak = 0
    /\ scn = [run |-> 0]
    /\ ev = NoEvent
    /\ cache = <<>> /\ kv = <<>>
    /\ limiter = <<>> /\ store = <<>>
    /\ pc = <<>> /\ req = <<>>

RunTick ==
    /\ now < MaxTime
    /\ now' = now + 1
    /\ ev' = [NoEvent EXCEPT !.op = "tick", !.t = now]
    /\ UNCHANGED <<steps, cbVars, cacheVars, rlVars, concVars>>

RunCall ==
    /\ steps < MaxSteps
    /\ \E outcome \in Outcomes :
          \E r \in {call(cb, now, outcome, 0)} :
              /\ cb' = r.b
              /\ call_count' = IF r.invoked THEN call_count + 1 ELSE call_count
              /\ streak' = NextStreak(streak, r, cb, outcome)
              /\ scn' = [run |-> NextRun(scn.run, r, cb, outcome)]
              /\ ev' = [ op |-> "call", t |-> now, outcome |-> outcome,
                         invoked |-> r.invoked, raised |-> r.raised,
                         returned |-> r.returned, at |-> r.at ]
    /\ steps' = steps + 1
    /\ UNCHANGED <<now, cacheVars, limiter, store, concVars>>

\* reset() starts the history afresh.
RunReset ==
    /\ steps < MaxSteps
    /\ cb' = reset(cb, now)
    /\ streak' = 0
    /\ scn' = [run |-> 0]
    /\ ev' = [NoEvent EXCEPT !.op = "reset", !.t = now, !.at = cb]
    /\ steps' = steps + 1
    /\ UNCHANGED <<now, call_count, cacheVars, limiter, store, concVars>>

NextCBRun == RunTick \/ RunCall \/ RunReset

SpecCBRun == InitCBRun /\ [][NextCBRun]_vars

\* C25: the breaker leaves CLOSED for OPEN only when the most recent
\* failure_threshold completed calls were all non-whitelisted failures, and
\* a successful call in CLOSED restarts the count.
C25_ConsecutiveFailures ==
    /\ [][(CallStep /\ cb.state = CLOSED /\ cb'.state = OPEN)
            => scn'.run >= cb.failure_threshold]_vars
    /\ [][(CallStep /\ ev'.invoked /\ ev'.outcome = "ok" /\ cb.state = CLOSED)
            => cb'.failure_count = 0]_vars

\* ------------------------------------------------------------------------
\* failure_count under concurrent callers (checked under SpecCBConc)
\* ------------------------------------------------------------------------
\* C26: under every interleaving of concurrent callers failure_count is
\* never incremented while the breaker is OPEN (a call admitted before the
\* circuit opened and failing afterwards does not raise it), nor by a
\* whitelisted failure.
C26_NoCountWhileOpen ==
    [][/\ (cb.state = OPEN => cb'.failure_count <= cb.failure_count)
       /\ (ev'.op = "whitelisted" => cb'.failure_count = cb.failure_count)]_vars

\* ================================================================
\* CircuitBreaker, concurrent failing calls, _on_failure and
\* _transition_to_open cut at every read and write of a shared field
\* ================================================================
\* The threads' operations all raise a non-whitelisted exception within one
\* clock instant.  A failing call is cut into
\*   FailStart   the OPEN test of call() and the invocation (lines 67-77)
\*   FailTime    self.last_failure_time = time.time() (line 133)
\*   FailLoad    the read of self.failure_count in `+= 1` (line 134)
\*   FailStore   the write of self.failure_count in `+= 1` (line 134)
\*   FailTest    the metrics and the threshold test (lines 135-142)
\*   OpenLoad    prev_state = self.state (line 105)
\*   OpenStore   self.state = OPEN (line 106)
\*   OpenRecord  the prev_state test and last_state_change_time (108-111)
MaxFailCalls == 3

NoLocal == [failure_count |-> 0, prev_state |-> CLOSED]

NoFailures == [failures |-> 0, opens |-> 0]

InitCBFail ==
    /\ now = 1
    /\ steps = 0
    /\ \E th \in 1..MaxThreshold : cb = NewBreaker(th, 1, {}, 1)
    /\ call_count = 0
    /\ streak = 0
    /\ ev = NoEvent
    /\ scn = NoFailures
    /\ pc = [p \in Procs |-> "idle"]
    /\ req = [p \in Procs |-> NoLocal]
    /\ cache = <<>> /\ kv = <<>>
    /\ limiter = <<>> /\ store = <<>>

CBFailFrame == UNCHANGED <<now, streak, cacheVars, limiter, store>>

FailStart(p) ==
    /\ pc[p] = "idle"
    /\ steps < MaxFailCalls
    /\ steps' = steps + 1
    /\ \E a \in {Admit(cb, now)} :
          /\ cb' = a.b
          /\ pc' = [pc EXCEPT ![p] = IF a.admitted THEN "running" ELSE "idle"]
          /\ call_count' = IF a.admitted THEN call_count + 1 ELSE call_count
          /\ scn' = IF a.admitted THEN [scn EXCEPT !.failures = @ + 1] ELSE scn
    /\ ev' = [op |-> "call", p |-> p]
    /\ UNCHANGED req
    /\ CBFailFrame

FailTime(p) ==
    /\ pc[p] = "running"
    /\ cb' = [cb EXCEPT !.last_failure_time = now]
    /\ pc' = [pc EXCEPT ![p] = "load"]
    /\ ev' = [op |-> "last_failure_time", p |-> p]
    /\ UNCHANGED <<steps, call_count, scn, req>>
    /\ CBFailFrame

FailLoad(p) ==
    /\ pc[p] = "load"
    /\ req' = [req EXCEPT ![p].failure_count = cb.failure_count]
    /\ pc' = [pc EXCEPT ![p] = "store"]
    /\ ev' = [op |-> "load", p |-> p]
    /\ UNCHANGED <<steps, cb, call_count, scn>>
    /\ CBFailFrame

FailStore(p) ==
    /\ pc[p] = "store"
    /\ cb' = [cb EXCEPT !.failure_count = req[p].failure_count + 1]
    /\ pc' = [pc EXCEPT ![p] = "test"]
    /\ ev' = [op |-> "store", p |-> p]
    /\ UNCHANGED <<steps, call_count, scn, req>>
    /\ CBFailFrame

FailTest(p) ==
    /\ pc[p] = "test"
    /\ cb' = [cb EXCEPT !.metrics.failure_count = @ + 1,
                        !.metrics.last_failure_time = cb.last_failure_time]
    /\ pc' = [pc EXCEPT ![p] =
                 IF cb.state = HALF_OPEN \/ cb.failure_count >= cb.failure_threshold
                 THEN "open_load" ELSE "idle"]
    /\ ev' = [op |-> "test", p |-> p]
    /\ UNCHANGED <<steps, call_count, scn, req>>
    /\ CBFailFrame

OpenLoad(p) ==
    /\ pc[p] = "open_load"
    /\ req' = [req EXCEPT ![p].prev_state = cb.state]
    /\ pc' = [pc EXCEPT ![p] = "open_store"]
    /\ ev' = [op |-> "prev_state", p |-> p]
    /\ UNCHANGED <<steps, cb, call_count, scn>>
    /\ CBFailFrame

OpenStore(p) ==
    /\ pc[p] = "open_store"
    /\ cb' = [cb EXCEPT !.state = OPEN]
    /\ pc' = [pc EXCEPT ![p] = "open_record"]
    /\ ev' = [op |-> "state", p |-> p]
    /\ UNCHANGED <<steps, call_count, scn, req>>
    /\ CBFailFrame

OpenRecord(p) ==
    /\ pc[p] = "open_record"
    /\ cb' = RecordTransition(cb, req[p].prev_state, now)
    /\ scn' = IF req[p].prev_state # cb.state
              THEN [scn EXCEPT !.opens = @ + 1] ELSE scn
    /\ pc' = [pc EXCEPT ![p] = "idle"]
    /\ req' = [req EXCEPT ![p] = NoLocal]
    /\ ev' = [op |-> "record", p |-> p]
    /\ UNCHANGED <<steps, call_count>>
    /\ CBFailFrame

NextCBFail ==
    \E p \in Procs :
        \/ FailStart(p) \/ FailTime(p) \/ FailLoad(p) \/ FailStore(p)
        \/ FailTest(p) \/ OpenLoad(p) \/ OpenStore(p) \/ OpenRecord(p)

SpecCBFail == InitCBFail /\ [][NextCBFail]_vars

\* C27: each failure is applied as one atomic step: with concurrent failing
\* callers failure_count rises by exactly the number of failures, and the
\* crossing of failure_threshold produces exactly one recorded CLOSED to
\* OPEN transition.
C27_AtomicFailures ==
    /\ (\A p \in Procs : pc[p] = "idle") => cb.failure_count = scn.failures
    /\ scn.opens <= 1

\* ------------------------------------------------------------------------
\* The cache client's circuit against its failure count (checked under
\* SpecCache)
\* ------------------------------------------------------------------------
\* C28: after every completed operation circuit_open is true exactly when
\* failure_count >= failure_threshold; circuit_open goes from true to false
\* only in an is_available() call made when now - last_circuit_open_time >
\* circuit_reset_time, which restarts failure_count from 0 (leaving 0, or 1
\* when its own probe of the backend then fails).
C28_CircuitMatchesCount ==
    /\ [](cache.circuit_open <=> cache.failure_count >= cache.failure_threshold)
    /\ [][(cache.circuit_open /\ ~cache'.circuit_open) =>
            /\ ev'.op = "is_available"
            /\ ResetTimeElapsed(cache, now)
            /\ cache'.failure_count = (IF ev'.up THEN 0 ELSE 1)]_vars

\* An is_available() call at the first instant after the reset time has just
\* closed a circuit that was open with the count at the threshold.
C28_Witness ==
    /\ ev.op = "is_available" /\ ev.up
    /\ ~cache.circuit_open /\ cache.failure_count = 0
    /\ cache.failure_threshold >= 2
    /\ cache.last_circuit_open_time >= 1
    /\ now - cache.last_circuit_open_time = cache.circuit_reset_time + 1

\* C29: every backend call of the client that raises (in mget, exists,
\* expire, increment, the connection attempt and the ping of is_available,
\* and the ping of health_check) increments failure_count by exactly one,
\* and the one that makes it reach failure_threshold opens the circuit.
CountedOnce(count, c1) ==
    /\ c1.failure_count = count + 1
    /\ (c1.failure_count >= c1.failure_threshold => c1.circuit_open)

ProbeBase(c) == IF c.circuit_open THEN 0 ELSE c.failure_count

C29_DataOpsCount ==
    ~Degraded(cache) =>
        /\ \A keys \in KeySeqs :
              CountedOnce(cache.failure_count, mget(cache, keys, kv, now, FALSE).c)
        /\ \A key \in Keys :
              /\ CountedOnce(cache.failure_count, exists(cache, key, kv, now, FALSE).c)
              /\ CountedOnce(cache.failure_count, expire(cache, key, 1, kv, now, FALSE).c)
              /\ CountedOnce(cache.failure_count, increment(cache, key, 1, kv, now, FALSE).c)

C29_ProbeCounts ==
    (~cache.circuit_open \/ ResetTimeElapsed(cache, now)) =>
        /\ CountedOnce(ProbeBase(cache), is_available(cache, now, TRUE, FALSE).c)
        /\ (cache.client = None =>
              CountedOnce(ProbeBase(cache), is_available(cache, now, FALSE, TRUE).c))

C29_HealthCheckCounts ==
    (ev'.op = "health_check" /\ ev'.cmds = 1 /\ ~ev'.ping_ok) =>
        CountedOnce(cache.failure_count, cache')

C29_EveryFailureCounted ==
    /\ []C29_DataOpsCount
    /\ []C29_ProbeCounts
    /\ [][C29_HealthCheckCounts]_vars

\* ================================================================
\* EnhancedRedisCache, concurrent failing operations of one client
\* (threads of one process), _handle_failure cut at every read and write
\* ================================================================
\* Each thread runs a data operation whose backend call raises.
\*   HFStart    the guard of the operation and the raising call
\*   HFLoad     the read of self.failure_count in `+= 1` (line 90)
\*   HFStore    the write of self.failure_count in `+= 1` (line 90)
\*   HFTest     failure_count >= failure_threshold and not circuit_open (91)
\*   HFOpen     self.circuit_open = True (line 93)
\*   HFOpenTime self.last_circuit_open_time = time.time() (line 94)
InitCacheConc ==
    /\ now = 1
    /\ steps = 0
    /\ ev = NoEvent
    /\ \E th \in 1..MaxCacheThreshold :
          cache = NewCache(TRUE, "json", th, MaxResetTime, 1, TRUE)
    /\ kv = <<>>
    /\ scn = NoFailures
    /\ pc = [p \in Procs |-> "idle"]
    /\ req = [p \in Procs |-> 0]
    /\ cb = <<>> /\ call_count = 0 /\ streak = 0
    /\ limiter = <<>> /\ store = <<>>

CacheConcFrame == UNCHANGED <<kv, cbVars, limiter, store>>

HFTick ==
    /\ now < MaxConcTime
    /\ now' = now + 1
    /\ ev' = [op |-> "tick"]
    /\ UNCHANGED <<steps, cache, scn, pc, req>>
    /\ CacheConcFrame

HFStart(p) ==
    /\ pc[p] = "idle"
    /\ steps < MaxFailCalls
    /\ steps' = steps + 1
    /\ IF Degraded(cache)
       THEN UNCHANGED <<pc, scn>>
       ELSE /\ pc' = [pc EXCEPT ![p] = "load"]
            /\ scn' = [scn EXCEPT !.failures = @ + 1]
    /\ ev' = [op |-> "operation", p |-> p]
    /\ UNCHANGED <<now, cache, req>>
    /\ CacheConcFrame

HFLoad(p) ==
    /\ pc[p] = "load"
    /\ req' = [req EXCEPT ![p] = cache.failure_count]
    /\ pc' = [pc EXCEPT ![p] = "store"]
    /\ ev' = [op |-> "load", p |-> p]
    /\ UNCHANGED <<now, steps, cache, scn>>
    /\ CacheConcFrame

HFStore(p) ==
    /\ pc[p] = "store"
    /\ cache' = [cache EXCEPT !.failure_count = req[p] + 1]
    /\ pc' = [pc EXCEPT ![p] = "test"]
    /\ ev' = [op |-> "store", p |-> p]
    /\ UNCHANGED <<now, steps, scn, req>>
    /\ CacheConcFrame

HFTest(p) ==
    /\ pc[p] = "test"
    /\ pc' = [pc EXCEPT ![p] =
                 IF cache.failure_count >= cache.failure_threshold /\ ~cache.circuit_open
                 THEN "open" ELSE "idle"]
    /\ ev' = [op |-> "test", p |-> p]
    /\ UNCHANGED <<now, steps, cache, scn, req>>
    /\ CacheConcFrame

HFOpen(p) ==
    /\ pc[p] = "open"
    /\ cache' = [cache EXCEPT !.circuit_open = TRUE]
    /\ pc' = [pc EXCEPT ![p] = "open_time"]
    /\ ev' = [op |-> "circuit_open", p |-> p]
    /\ UNCHANGED <<now, steps, scn, req>>
    /\ CacheConcFrame

HFOpenTime(p) ==
    /\ pc[p] = "open_time"
    /\ cache' = [cache EXCEPT !.last_circuit_open_time = now]
    /\ scn' = [scn EXCEPT !.opens = @ + 1]
    /\ pc' = [pc EXCEPT ![p] = "idle"]
    /\ ev' = [op |-> "last_circuit_open_time", p |-> p]
    /\ UNCHANGED <<now, steps, req>>
    /\ CacheConcFrame

NextCacheConc ==
    \/ HFTick
    \/ \E p \in Procs :
          \/ HFStart(p) \/ HFLoad(p) \/ HFStore(p)
          \/ HFTest(p) \/ HFOpen(p) \/ HFOpenTime(p)

SpecCacheConc == InitCacheConc /\ [][NextCacheConc]_vars

\* C30: with concurrent failing operations failure_count ends equal to the
\* number of failures handled, and the opening of the circuit sets
\* circuit_open and records last_circuit_open_time exactly once.
C30_AtomicCacheFailures ==
    /\ (\A p \in Procs : pc[p] = "idle") => cache.failure_count = scn.failures
    /\ scn.opens <= 1

\* ------------------------------------------------------------------------
\* The token level an allowed check writes back (checked under SpecRL)
\* ------------------------------------------------------------------------
\* The check just made read and wrote the store.
UsedStore(e) ==
    /\ e.op = "check"
    /\ e.probe_ret /\ ~e.client_none /\ ~e.read_raised /\ ~e.write_raised

\* C31: an allowed check writes back exactly new_tokens - 1 with
\* last_refill = now, where new_tokens = min(capacity, tokens + (now -
\* last_refill) * capacity / window): no fraction of a token is lost.
C31_WritesExactLevel ==
    [][(UsedStore(ev') /\ ev'.allowed) =>
         LET limit == ClassLimit(limiter, ev'.rq)
             window == ClassWindow(limiter, ev'.rq)
             key == _generate_key(ev'.rq)
             b == ReadBucket(store, key, window, now).bucket
             current_tokens == IF b.present THEN b.tokens ELSE limit
             last_refill == IF b.present THEN b.last_refill ELSE IntTime(now)
         IN  /\ store'[key].present
             /\ store'[key].last_refill = IntTime(now)
             /\ store'[key].tokens * window =
                   NewTokensTimesWindow(current_tokens, IntTime(now) - last_refill,
                                        limit, window) - window]_vars

\* ================================================================
\* RateLimiter._is_redis_available under concurrent checks of one limiter
\* (threads of one process), cut at its read and its write of
\* last_redis_check
\* ================================================================
\*   ProbeTest   now = time.time() and the cooldown test (lines 232-233)
\*   ProbeSet    self.last_redis_check = now (line 234)
\*   ProbeCall   self.redis.is_available() (line 235)
MaxProbeCalls == 3

NoProbe == [probed |-> FALSE, last_probe |-> 0]

InitRLProbe ==
    /\ now \in StartTimes
    /\ steps = 0
    /\ ev = NoEvent
    /\ cache = NewCache(TRUE, "json", 1, 1, now, TRUE)
    /\ kv = <<>>
    /\ \E cfg \in LimitConfigs : limiter = NewLimiter(cfg[1], cfg[2], cfg[3])
    /\ store = <<>>
    /\ scn = NoProbe
    /\ pc = [p \in Procs |-> "idle"]
    /\ req = [p \in Procs |-> 0]
    /\ cb = <<>> /\ call_count = 0 /\ streak = 0

ProbeTick ==
    /\ now < Seconds(2 * RedisCheckCooldown + 2)
    /\ now' = now + 1
    /\ ev' = [op |-> "tick"]
    /\ UNCHANGED <<steps, limiter, cache, scn, pc, req, kv, store, cbVars>>

ProbeTest(p) ==
    /\ pc[p] = "idle"
    /\ steps < MaxProbeCalls
    /\ steps' = steps + 1
    /\ req' = [req EXCEPT ![p] = now]
    /\ pc' = [pc EXCEPT ![p] =
                 IF now - limiter.last_redis_check > Seconds(limiter.redis_check_cooldown)
                 THEN "set" ELSE "idle"]
    /\ ev' = [op |-> "test", p |-> p]
    /\ UNCHANGED <<now, limiter, cache, scn, kv, store, cbVars>>

ProbeSet(p) ==
    /\ pc[p] = "set"
    /\ limiter' = [limiter EXCEPT !.last_redis_check = req[p]]
    /\ pc' = [pc EXCEPT ![p] = "call"]
    /\ ev' = [op |-> "set", p |-> p]
    /\ UNCHANGED <<now, steps, cache, scn, req, kv, store, cbVars>>

ProbeCall(p) ==
    /\ pc[p] = "call"
    /\ \E ping_ok \in BOOLEAN :
          cache' = is_available(cache, now, TRUE, ping_ok).c
    /\ scn' = [probed |-> TRUE, last_probe |-> now]
    /\ pc' = [pc EXCEPT ![p] = "idle"]
    /\ ev' = [op |-> "is_available", p |-> p]
    /\ UNCHANGED <<now, steps, limiter, req, kv, store, cbVars>>

NextRLProbe ==
    \/ ProbeTick
    \/ \E p \in Procs : ProbeTest(p) \/ ProbeSet(p) \/ ProbeCall(p)

SpecRLProbe == InitRLProbe /\ [][NextRLProbe]_vars

\* C32: under every interleaving of concurrent checks on one limiter, two
\* invocations of is_available() are separated by more than
\* redis_check_cooldown seconds.
C32_OneProbePerCooldown ==
    [][(ev'.op = "is_available" /\ scn.probed) =>
          now - scn.last_probe > Seconds(RedisCheckCooldown)]_vars

\* ================================================================
\* The availability judgement between two probes (checked under SpecRL)
\* ================================================================
\* The check just made sent no command to the store: the probe answered
\* false, or redis.client was None and building the pipeline raised.
NoStoreCommand(e) == ~e.probe_ret \/ e.client_none

\* C33: a check that directly follows, within the cooldown, a check whose
\* probe returned false fails open without issuing any command to the store.
C33_FalseProbeHolds ==
    [][(/\ ev.op = "check" /\ ev.probed /\ ~ev.probe_ret
        /\ ev'.op = "check" /\ ~ev'.probed) =>
          /\ ev'.allowed
          /\ ev'.remaining = ClassLimit(limiter, ev'.rq)
          /\ NoStoreCommand(ev')]_vars

\* ================================================================
\* Independence of the buckets (checked under SpecRL)
\* ================================================================
\* The endpoint class whose capacity and window a request is checked against.
EndpointClass(rq) ==
    IF rq.is_sensitive THEN "sensitive"
    ELSE IF rq.is_authenticated THEN "authenticated"
    ELSE "anonymous"

AnyRequest == [client_id : ClientIds, is_authenticated : BOOLEAN, is_sensitive : BOOLEAN]

\* C34: in every reachable state, the result of a check is the same whether
\* or not a check for a different identity, or for a different endpoint class
\* of the same identity, is made just before it; and that other check leaves
\* the bucket of the first one as it was.
C34_BucketsIndependent ==
    \A other \in AnyRequest, rq \in AnyRequest :
        (other.client_id # rq.client_id \/ EndpointClass(other) # EndpointClass(rq)) =>
            LET before == check_rate_limit(limiter, cache, store, other, now, "none")
                alone == check_rate_limit(before.limiter, before.cache, store,
                                          rq, now, "none")
                after == check_rate_limit(before.limiter, before.cache, before.store,
                                          rq, now, "none")
            IN  /\ after.result = alone.result
                /\ before.store[_generate_key(rq)] = store[_generate_key(rq)]

\* ================================================================
\* Expiry of the buckets: one caller, the store answering, and a clock that
\* runs past twice the longest window
\* ================================================================
MaxExpChecks == 3
ExpHorizon == 5

InitRLExp ==
    /\ now \in StartTimes
    /\ steps = 0
    /\ ev = NoEvent
    /\ cache = NewCache(TRUE, "json", 1, 1, now, TRUE)
    /\ kv = <<>>
    /\ \E cfg \in LimitConfigs : limiter = NewLimiter(cfg[1], cfg[2], cfg[3])
    /\ store = [k \in BucketKeys |-> NoBucket]
    /\ scn = NoScenario
    /\ cb = <<>> /\ call_count = 0 /\ streak = 0
    /\ pc = <<>> /\ req = <<>>

ExpTick ==
    /\ now < Seconds(RedisCheckCooldown + 1) + ExpHorizon
    /\ now' = now + 1
    /\ ev' = [op |-> "tick"]
    /\ UNCHANGED <<steps, limiter, store, scn, cbVars, cacheVars, concVars>>

ExpCheck ==
    /\ steps < MaxExpChecks
    /\ \E rq \in Requests :
          \E r \in {check_rate_limit(limiter, cache, store, rq, now, "none")} :
              /\ limiter' = r.limiter
              /\ cache' = r.cache
              /\ store' = r.store
              /\ ev' = [ op |-> "check", rq |-> rq,
                         probed |-> r.probed, probe_ret |-> r.probe_ret,
                         client_none |-> r.client_none,
                         read_raised |-> r.read_raised,
                         write_raised |-> r.write_raised,
                         allowed |-> r.result.allowed,
                         remaining |-> r.result.remaining,
                         expired |-> /\ store[_generate_key(rq)].present
                                     /\ now >= store[_generate_key(rq)].exp ]
    /\ steps' = steps + 1
    /\ UNCHANGED <<now, kv, scn, cbVars, concVars>>

NextRLExp == ExpTick \/ ExpCheck

SpecRLExp == InitRLExp /\ [][NextRLExp]_vars

\* C35: a check that writes the bucket leaves the key with an expiry of twice
\* the window from now; and a check that finds a bucket whose expiry has
\* passed (no check touched it for twice the window) is allowed with
\* remaining = capacity - 1 and stores a bucket of capacity - 1 tokens
\* refilled now.
C35_ExpiryAndRebirth ==
    [][ev'.op = "check" =>
          LET limit == ClassLimit(limiter, ev'.rq)
              window == ClassWindow(limiter, ev'.rq)
              key == _generate_key(ev'.rq)
          IN  /\ (UsedStore(ev') /\ ev'.allowed) =>
                    /\ store'[key].present
                    /\ store'[key].exp = now + Seconds(2 * window)
              /\ (UsedStore(ev') /\ store[key].present /\ now >= store[key].exp) =>
                    /\ ev'.allowed
                    /\ ev'.remaining = limit - 1
                    /\ store'[key].tokens = limit - 1
                    /\ store'[key].last_refill = IntTime(now)]_vars

\* A check has just been made on a bucket that had expired, and a later
\* bucket is in the store.
C35_Witness ==
    /\ ev.op = "check" /\ UsedStore(ev) /\ ev.allowed
    /\ ev.expired
    /\ ev.remaining = ClassLimit(limiter, ev.rq) - 1
    /\ store[_generate_key(ev.rq)].present
    /\ store[_generate_key(ev.rq)].exp = now + Seconds(2 * ClassWindow(limiter, ev.rq))

\* ================================================================
\* The rate a bucket admits: one caller, the store answering, and a count of
\* the allowed checks of one request class since some check
\* ================================================================
MaxRateChecks == 4
RateHorizon == 2

NoInterval == [on |-> FALSE, rq |-> <<>>, t0 |-> 0, k |-> 0]

\* The interval starts with any check; it counts the allowed checks of that
\* check's identity and class, and is dropped when another class is checked
\* on the same key.
NextInterval(sc, rq, allowed, t, start) ==
    LET one == IF allowed THEN 1 ELSE 0
    IN  IF sc.on /\ sc.rq = rq THEN [sc EXCEPT !.k = @ + one]
        ELSE IF sc.on /\ _generate_key(sc.rq) # _generate_key(rq) THEN sc
        ELSE IF start THEN [on |-> TRUE, rq |-> rq, t0 |-> t, k |-> one]
        ELSE NoInterval

InitRLRate ==
    /\ now \in StartTimes
    /\ steps = 0
    /\ ev = NoEvent
    /\ cache = NewCache(TRUE, "json", 1, 1, now, TRUE)
    /\ kv = <<>>
    /\ \E cfg \in LimitConfigs : limiter = NewLimiter(cfg[1], cfg[2], cfg[3])
    /\ store = [k \in BucketKeys |-> NoBucket]
    /\ scn = NoInterval
    /\ cb = <<>> /\ call_count = 0 /\ streak = 0
    /\ pc = <<>> /\ req = <<>>

RateTick ==
    /\ now < Seconds(RedisCheckCooldown + 1) + RateHorizon
    /\ now' = now + 1
    /\ ev' = [op |-> "tick"]
    /\ UNCHANGED <<steps, limiter, store, scn, cbVars, cacheVars, concVars>>

RateCheck ==
    /\ steps < MaxRateChecks
    /\ \E rq \in Requests, start \in BOOLEAN :
          \E r \in {check_rate_limit(limiter, cache, store, rq, now, "none")} :
              /\ limiter' = r.limiter
              /\ cache' = r.cache
              /\ store' = r.store
              /\ scn' = NextInterval(scn, rq, r.result.allowed, now, start)
              /\ ev' = [ op |-> "check", rq |-> rq,
                         allowed |-> r.result.allowed,
                         remaining |-> r.result.remaining ]
    /\ steps' = steps + 1
    /\ UNCHANGED <<now, kv, cbVars, concVars>>

NextRLRate == RateTick \/ RateCheck

SpecRLRate == InitRLRate /\ [][NextRLRate]_vars

\* C36: the number of allowed checks of one key in an interval of d seconds
\* is at most capacity + d * capacity / window (both sides multiplied by the
\* window in clock ticks).
C36_RateBound ==
    scn.on =>
        scn.k * Seconds(ClassWindow(limiter, scn.rq)) <=
            ClassLimit(limiter, scn.rq) * Seconds(ClassWindow(limiter, scn.rq))
              + (now - scn.t0) * ClassLimit(limiter, scn.rq)

\* ================================================================
\* What can close the cache circuit (checked under SpecCache)
\* ================================================================
\* The result a data operation or health_check gives without the backend.
DegradedResult(e, c) ==
    CASE e.op = "mget" -> e.ret = AllNone(e.keys)
      [] e.op \in {"exists", "expire"} -> e.ret = FALSE
      [] e.op = "increment" -> e.ret = PyNone
      [] e.op = "health_check" ->
            /\ e.ret.status = IF c.enabled THEN "unhealthy" ELSE "disabled"
            /\ e.ret.latency_ms = 0

\* C37: with the circuit open, a call of mget, exists, expire, increment or
\* health_check leaves circuit_open, failure_count and last_circuit_open_time
\* as they were, whatever time has passed, sends nothing to the backend and
\* returns the degraded result (None, False, or the status unhealthy, which
\* is disabled for a cache that is not enabled).
C37_OnlyProbeCloses ==
    [][(cache.circuit_open /\ ev'.op \in DataOps \cup {"health_check"}) =>
          /\ cache'.circuit_open
          /\ cache'.failure_count = cache.failure_count
          /\ cache'.last_circuit_open_time = cache.last_circuit_open_time
          /\ ev'.cmds = 0
          /\ DegradedResult(ev', cache)]_vars

\* A data operation has just returned degraded with the circuit open, the
\* client connected and circuit_reset_time elapsed.
C37_Witness ==
    /\ ev.op \in DataOps
    /\ ev.cmds = 0
    /\ cache.circuit_open
    /\ cache.client # None
    /\ now - cache.last_circuit_open_time > cache.circuit_reset_time

\* ================================================================
\* src/api/utils/resilience.py: CircuitBreaker, with_retry and
\* predict_with_resilience.  Time in seconds.
\* ================================================================
ModelFailureThreshold == 5
ModelRecoveryTimeout == 30
RetryCount == 3
RetryMinWait == 1
RetryMaxWait == 5

MaxPredictCalls == 3
MaxPredictTime == 2

ModelNames == {"default", "other"}

\* resilience.CircuitBreaker.__init__
NewModelBreaker(name, failure_threshold, recovery_timeout) ==
    [ name |-> name,
      failure_threshold |-> failure_threshold,
      recovery_timeout |-> recovery_timeout,
      state |-> "closed",
      failure_count |-> 0,
      last_failure_time |-> 0 ]

\* resilience.CircuitBreaker._handle_success
breaker_handle_success(b) ==
    IF b.state = "half_open"
    THEN [b EXCEPT !.state = "closed", !.failure_count = 0]
    ELSE b

\* resilience.CircuitBreaker._handle_failure
breaker_handle_failure(b, t) ==
    LET b1 == [b EXCEPT !.last_failure_time = t]
    IN  IF b1.state = "closed"
        THEN LET b2 == [b1 EXCEPT !.failure_count = @ + 1]
             IN  IF b2.failure_count >= b2.failure_threshold
                 THEN [b2 EXCEPT !.state = "open"]
                 ELSE b2
        ELSE IF b1.state = "half_open"
        THEN [b1 EXCEPT !.state = "open"]
        ELSE b1

\* resilience.CircuitBreaker.call around a function that returns (fn_ok) or
\* raises.  invoked: whether the function was called.
breaker_call(b, t, fn_ok) ==
    IF b.state = "open" /\ ~(t - b.last_failure_time > b.recovery_timeout)
    THEN [b |-> b, outcome |-> "CircuitBreakerError", invoked |-> FALSE]
    ELSE LET b1 == IF b.state = "open" THEN [b EXCEPT !.state = "half_open"] ELSE b
         IN  IF fn_ok
             THEN [b |-> breaker_handle_success(b1), outcome |-> "result",
                   invoked |-> TRUE]
             ELSE [b |-> breaker_handle_failure(b1, t), outcome |-> "raised",
                   invoked |-> TRUE]

\* with_retry around the breaker: attempt i at time t; oks[i] says whether
\* model_fn returns at attempt i, waits[i] is the sleep after attempt i.
\* Every exception is retried until attempt RetryCount, whose exception is
\* re-raised.  invoked, failed: calls of model_fn so far, and those that
\* raised since the last that returned.
RECURSIVE RetryFrom(_, _, _, _, _, _, _)
RetryFrom(b, t, i, oks, waits, invoked, failed) ==
    LET r == breaker_call(b, t, oks[i])
        n == invoked + (IF r.invoked THEN 1 ELSE 0)
        f == IF ~r.invoked THEN failed
             ELSE IF r.outcome = "raised" THEN failed + 1 ELSE 0
    IN  IF r.outcome = "result" \/ i = RetryCount
        THEN [ outcome |-> r.outcome, invoked |-> n, failed |-> f, attempts |-> i,
               breaker |-> r.b, t |-> t ]
        ELSE RetryFrom(r.b, t + waits[i], i + 1, oks, waits, n, f)

\* predict_with_resilience: the decorators of the inner _predict are
\* evaluated by the call, so the call works on a breaker made for it.
predict_with_resilience(model_name, t, oks, waits) ==
    RetryFrom(NewModelBreaker(model_name, ModelFailureThreshold, ModelRecoveryTimeout),
              t, 1, oks, waits, 0, 0)

\* Ghost: per model name, the model_fn invocations that raised since the
\* last one that returned, and the time of the last that raised.
NoModelFailures == [n \in ModelNames |-> [failed |-> 0, last |-> 0]]

InitPredict ==
    /\ now = 0
    /\ steps = 0
    /\ ev = NoEvent
    /\ scn = NoModelFailures
    /\ cb = <<>> /\ call_count = 0 /\ streak = 0
    /\ cache = <<>> /\ kv = <<>>
    /\ limiter = <<>> /\ store = <<>>
    /\ pc = <<>> /\ req = <<>>

PredictTick ==
    /\ now < MaxPredictTime
    /\ now' = now + 1
    /\ ev' = [op |-> "tick"]
    /\ UNCHANGED <<steps, scn, cbVars, cacheVars, limiter, store, concVars>>

PredictWithResilience ==
    /\ steps < MaxPredictCalls
    /\ \E model_name \in ModelNames,
          oks \in [1..RetryCount -> BOOLEAN],
          waits \in [1..RetryCount -> {RetryMinWait, RetryMaxWait}] :
          \E r \in {predict_with_resilience(model_name, now, oks, waits)} :
              /\ scn' = [scn EXCEPT ![model_name] =
                           IF r.outcome = "result"
                           THEN [failed |-> 0, last |-> @.last]
                           ELSE IF r.failed > 0
                           THEN [failed |-> @.failed + r.failed, last |-> r.t]
                           ELSE @]
              /\ ev' = [ op |-> "predict", model_name |-> model_name,
                         outcome |-> r.outcome, invoked |-> r.invoked,
                         started |-> now ]
              /\ now' = r.t
    /\ steps' = steps + 1
    /\ UNCHANGED <<cbVars, cacheVars, limiter, store, concVars>>

NextPredict == PredictTick \/ PredictWithResilience

SpecPredict == InitPredict /\ [][NextPredict]_vars

\* C38: once failure_threshold invocations of model_fn for a model name have
\* failed in a row, a predict_with_resilience call for that name that starts
\* within recovery_timeout of the last failure raises CircuitBreakerError
\* without invoking model_fn.
C38_BreakerKeptPerModel ==
    [][(/\ ev'.op = "predict"
        /\ scn[ev'.model_name].failed >= ModelFailureThreshold
        /\ now - scn[ev'.model_name].last <= ModelRecoveryTimeout) =>
          /\ ev'.outcome = "CircuitBreakerError"
          /\ ev'.invoked = 0]_vars

\* ================================================================
\* The metrics of the CircuitBreaker (checked under SpecCB)
\* ================================================================
\* C39: for one caller, every call adds one to success_count exactly when it
\* returned a result, one to the metrics' failure_count exactly when the
\* operation raised a non-whitelisted exception, one to rejected_count
\* exactly when it was rejected with CircuitBreakerOpenException; reset()
\* and the passing of time change none of the three (which start at 0); and
\* current_state always equals the breaker's state.
C39_MetricsConsistent ==
    /\ [](cb.metrics.current_state = cb.state)
    /\ [][LET one(p) == IF p THEN 1 ELSE 0
              called == ev'.op = "call"
          IN  /\ cb'.metrics.success_count =
                    cb.metrics.success_count + one(called /\ ev'.returned)
              /\ cb'.metrics.failure_count =
                    cb.metrics.failure_count
                      + one(called /\ ev'.invoked /\ IsFailure(cb, ev'.outcome))
              /\ cb'.metrics.rejected_count =
                    cb.metrics.rejected_count
                      + one(called /\ ev'.raised = CircuitBreakerOpenException)]_vars

\* reset() has just closed an open circuit after calls that returned, failed
\* and were rejected.
C39_Witness ==
    /\ ev.op = "reset"
    /\ ev.at.state = OPEN
    /\ cb.state = CLOSED
    /\ cb.metrics.current_state = CLOSED
    /\ cb.metrics.success_count >= 1
    /\ cb.metrics.failure_count >= 2
    /\ cb.metrics.rejected_count >= 1

====
